---- MODULE Spec2Model ----
(***************************************************************************)
(* A model of the modl-admin server: the request chain of                  *)
(* src/server/index.ts (session middleware, updateActivity, requireAuth,   *)
(* protected handler), the e-mail verification codes, and the routes of    *)
(* src/server/routes/monitoring.ts: POST /logs, PUT /logs/:id/resolve,     *)
(* GET /logs, GET /sources, GET /dashboard and calculateSystemHealth.      *)
(***************************************************************************)
EXTENDS Integers, Sequences, FiniteSets, TLC

\* JavaScript's undefined: an absent field, an absent cookie.
NoVal == "undefined"

-----------------------------------------------------------------------------
(* Bounds of the model *)

MaxTime == 2
MaxCodes == 2
MaxLogs == 2

-----------------------------------------------------------------------------
(* Universe of values *)

Reqs == {"r1", "r2"}
AdminIds == {"a1"}
IPs == {"ip1", "ip2"}
Sids == {"s1", "s2"}
StoredSids == {"s1"}
DevAdminId == "dev-admin-id-00000000000000"
NodeEnvs == {"development", "production"}
Emails == {"ops@example.com", "Ops@Example.com"}
CodeDigits == {"123456", "654321"}

VARIABLES
    nodeEnv,    \* process.env.NODE_ENV
    now,        \* the server clock (new Date())
    admins,     \* collection admin_users: _id -> document
    sessions,   \* collection admin_sessions: sid -> session data
    reqs,       \* the requests in flight, one per slot
    arrival,    \* history: what each request met when it arrived
    codes,      \* collection email_codes: row -> document
    codeRows,   \* the number of rows ever inserted into email_codes
    redeemed,   \* history: row -> the number of its successful redemptions
    lastRedeem, \* the last redeemCode call and its outcome
    logs,       \* collection of system logs: _id (position) -> document
    logResp,    \* the status of the last answer of a /logs route
    batch,      \* the client's resolveMutation in progress
    ingest,     \* the last POST /logs: its body and the status it was answered
    servers,    \* collection of servers: _id (position) -> provisioningStatus
    query,      \* the GET /logs request in progress and its answer
    sources,    \* the answer of the last GET /sources
    health,     \* the last call of calculateSystemHealth: metrics, score, status
    dash,       \* the GET /dashboard request in progress
    reads,      \* history: the last two answers of GET /dashboard
    ops,        \* history: the writes to the logs since the last answer
    trend,      \* the last call of getLogTrends: its window and its buckets
    modlServers,    \* collection of servers as the analytics read it
    analytics,      \* the answer of the last GET /analytics/dashboard
    healthCheck,    \* the answer of the last GET /health
    auditLogs,      \* the in-memory audit log, head first
    securityEvents, \* the in-memory security events, head first
    appends     \* history: the number of appends and the last entry appended

reqVars == <<nodeEnv, reqs, arrival>>
codeVars == <<codes, codeRows, redeemed, lastRedeem>>
logVars == <<logs, logResp, batch, ingest>>
readVars == <<servers, query, sources, health>>
dashVars == <<dash, reads, ops>>
sideVars == <<trend, modlServers, analytics, healthCheck,
              auditLogs, securityEvents, appends>>
vars == <<nodeEnv, now, admins, sessions, reqs, arrival,
          codes, codeRows, redeemed, lastRedeem, logs, logResp, batch, ingest,
          servers, query, sources, health, dash, reads, ops,
          trend, modlServers, analytics, healthCheck,
          auditLogs, securityEvents, appends>>

-----------------------------------------------------------------------------
(* Session data and admin documents *)

EmptySession == [adminId |-> NoVal, isAuthenticated |-> FALSE]

SessionDatas == [adminId : AdminIds \cup {NoVal}, isAuthenticated : BOOLEAN]

\* AdminUserSchema: email, loggedInIps, lastActivityAt, createdAt
AdminUserDoc(email, ips, t, created) ==
    [email |-> email, loggedInIps |-> ips, lastActivityAt |-> t, createdAt |-> created]

ReqIdle ==
    [stage |-> "idle", cookie |-> NoVal, ip |-> NoVal,
     hasSession |-> FALSE, session |-> EmptySession, dirty |-> FALSE,
     date |-> 0, found |-> "none", destroy |-> "no",
     adminUser |-> NoVal, status |-> 0, error |-> "", handlerRan |-> FALSE]

ArrivalIdle == [session |-> EmptySession, known |-> FALSE, ips |-> {}]

\* req.ip || req.connection.remoteAddress || 'unknown'
ClientIP(ip) == IF ip # NoVal THEN ip ELSE "unknown"

\* req.session.adminId.startsWith('dev-admin-id')
StartsWithDevAdminId(id) == id = DevAdminId

-----------------------------------------------------------------------------
(* The request chain *)

\* express-session: load the session the cookie names, or start an empty one.
SessionMiddleware(r, cookie, ip) ==
    /\ reqs[r].stage = "idle"
    /\ LET s == IF cookie \in DOMAIN sessions THEN sessions[cookie] ELSE EmptySession
           k == s.adminId \in DOMAIN admins
       IN /\ reqs' = [reqs EXCEPT ![r] =
                         [ReqIdle EXCEPT !.stage = "activity", !.cookie = cookie,
                                         !.ip = ip, !.hasSession = TRUE, !.session = s]]
          /\ arrival' = [arrival EXCEPT ![r] =
                         [session |-> s, known |-> k,
                          ips |-> IF k THEN admins[s.adminId].loggedInIps ELSE {}]]
    /\ UNCHANGED <<sideVars, nodeEnv, now, admins, sessions, codeVars, logVars, readVars, dashVars>>

\* updateActivity up to its await: decide whether to update, read the clock.
UpdateActivity(r) ==
    /\ reqs[r].stage = "activity"
    /\ IF reqs[r].session.adminId # NoVal
          /\ ~(nodeEnv = "development" /\ StartsWithDevAdminId(reqs[r].session.adminId))
       THEN reqs' = [reqs EXCEPT ![r].stage = "updating", ![r].date = now]
       ELSE reqs' = [reqs EXCEPT ![r].stage = "guard"]
    /\ UNCHANGED <<sideVars, nodeEnv, now, admins, sessions, arrival, codeVars, logVars, readVars, dashVars>>

\* AdminUserModel.updateOne({_id}, {$set: {lastActivityAt}, $addToSet: {loggedInIps}})
UpdateOneActivity(id, ip, date) ==
    IF id \in DOMAIN admins
    THEN [admins EXCEPT ![id] =
             AdminUserDoc(admins[id].email, admins[id].loggedInIps \cup {ip},
                          date, admins[id].createdAt)]
    ELSE admins

\* an updater that answers the request itself when its update throws
UpdateActivityDoneFailing(r, ok) ==
    /\ reqs[r].stage = "updating"
    /\ admins' = IF ok
                 THEN UpdateOneActivity(reqs[r].session.adminId,
                                        ClientIP(reqs[r].ip), reqs[r].date)
                 ELSE admins
    /\ reqs' = IF ok THEN [reqs EXCEPT ![r].stage = "guard"]
               ELSE [reqs EXCEPT ![r].stage = "done", ![r].status = 500,
                                 ![r].error = "Update activity failed"]
    /\ UNCHANGED <<sideVars, nodeEnv, now, sessions, arrival, codeVars, logVars, readVars, dashVars>>

\* the awaited update completes (ok) or throws (caught, logged); next() either way.
UpdateActivityDone(r, ok) ==
    /\ reqs[r].stage = "updating"
    /\ admins' = IF ok
                 THEN UpdateOneActivity(reqs[r].session.adminId,
                                        ClientIP(reqs[r].ip), reqs[r].date)
                 ELSE admins
    /\ reqs' = [reqs EXCEPT ![r].stage = "guard"]
    /\ UNCHANGED <<sideVars, nodeEnv, now, sessions, arrival, codeVars, logVars, readVars, dashVars>>

\* a guard that asks for both conditions to fail
SessionMissingBoth(s) == s.adminId = NoVal /\ ~s.isAuthenticated

\* !req.session.adminId || !req.session.isAuthenticated
SessionMissing(s) == s.adminId = NoVal \/ ~s.isAuthenticated

\* a denial that hides its cause
DenyUniform(q, code, msg) ==
    [q EXCEPT !.stage = "done", !.status = code, !.error = "Unauthorized"]

\* res.status(code).json({success: false, error})
Deny(q, code, msg) == [q EXCEPT !.stage = "done", !.status = code, !.error = msg]

\* a check that lets every address pass
IpAllowedAny(doc, ip) == TRUE

\* admin.loggedInIps.includes(clientIP)
IpAllowed(doc, ip) == ip \in doc.loggedInIps

\* requireAuth; dbOk: whether AdminUserModel.findById answers or throws.
RequireAuth(r, dbOk) ==
    /\ reqs[r].stage = "guard"
    /\ LET q == reqs[r]
           id == q.session.adminId
       IN reqs' = [reqs EXCEPT ![r] =
            IF nodeEnv = "development"
            THEN [q EXCEPT !.stage = "handler", !.adminUser = DevAdminId,
                           !.session = [adminId |-> DevAdminId, isAuthenticated |-> TRUE],
                           !.dirty = TRUE]
            ELSE IF SessionMissing(q.session)
            THEN Deny(q, 401, "Authentication required")
            ELSE IF ~dbOk
            THEN Deny(q, 500, "Authentication check failed")
            ELSE IF id \notin DOMAIN admins
            THEN [Deny(q, 401, "Invalid session") EXCEPT
                      !.found = "missing", !.hasSession = FALSE, !.destroy = "pending"]
            ELSE IF ~IpAllowed(admins[id], ClientIP(q.ip))
            THEN [Deny(q, 401, "IP address not authorized") EXCEPT !.found = "found"]
            ELSE [q EXCEPT !.stage = "handler", !.found = "found", !.adminUser = id]]
    /\ UNCHANGED <<sideVars, nodeEnv, now, admins, sessions, arrival, codeVars, logVars, readVars, dashVars>>

\* a destroy that leaves the session in the store
SessionKept(sid) == sessions

\* store.destroy(sid, callback): the session leaves the store unless the store errs.
SessionDestroyed(sid) == [s \in DOMAIN sessions \ {sid} |-> sessions[s]]

SessionDestroy(r, ok) ==
    /\ reqs[r].destroy = "pending"
    /\ sessions' = IF ok THEN SessionDestroyed(reqs[r].cookie) ELSE sessions
    /\ reqs' = [reqs EXCEPT ![r].destroy = IF ok THEN "done" ELSE "failed"]
    /\ UNCHANGED <<sideVars, nodeEnv, now, admins, arrival, codeVars, logVars, readVars, dashVars>>

\* the protected route's handler
Handler(r) ==
    /\ reqs[r].stage = "handler"
    /\ reqs' = [reqs EXCEPT ![r].stage = "done", ![r].status = 200, ![r].handlerRan = TRUE]
    /\ UNCHANGED <<sideVars, nodeEnv, now, admins, sessions, arrival, codeVars, logVars, readVars, dashVars>>

\* end of the response: express-session saves a modified session.
Finish(r) ==
    /\ reqs[r].stage = "done"
    /\ reqs[r].destroy # "pending"
    /\ IF reqs[r].dirty /\ reqs[r].hasSession
       THEN \E sid \in Sids :
              /\ IF reqs[r].cookie \in DOMAIN sessions
                 THEN sid = reqs[r].cookie
                 ELSE sid \notin DOMAIN sessions
              /\ sessions' = [s \in DOMAIN sessions \cup {sid} |->
                                 IF s = sid THEN reqs[r].session ELSE sessions[s]]
       ELSE sessions' = sessions
    /\ reqs' = [reqs EXCEPT ![r] = ReqIdle]
    /\ arrival' = [arrival EXCEPT ![r] = ArrivalIdle]
    /\ UNCHANGED <<sideVars, nodeEnv, now, admins, codeVars, logVars, readVars, dashVars>>

\* an admin document is removed from admin_users out of band
RemoveAdmin(id) ==
    /\ id \in DOMAIN admins
    /\ admins' = [a \in DOMAIN admins \ {id} |-> admins[a]]
    /\ UNCHANGED <<sideVars, nodeEnv, now, sessions, reqs, arrival, codeVars, logVars, readVars, dashVars>>

Tick ==
    /\ now < MaxTime
    /\ now' = now + 1
    /\ UNCHANGED <<sideVars, nodeEnv, admins, sessions, reqs, arrival, codeVars, logVars, readVars, dashVars>>

-----------------------------------------------------------------------------
(* Verification codes: the email_codes collection and its redemption *)

\* the minutes a code stays valid, in ticks of the model's clock
CodeTtl == 1

\* EmailCodeSchema's email: lowercase, trim
Lowercase(e) == IF e = "Ops@Example.com" THEN "ops@example.com" ELSE e

\* EmailCodeSchema: a new document (used defaults to false, createdAt to now)
EmailCodeDoc(email, code, expiresAt, t) ==
    [email |-> Lowercase(email), code |-> code, expiresAt |-> expiresAt,
     used |-> FALSE, createdAt |-> t]

CodesIdle ==
    /\ codes = [i \in {} |-> NoVal]
    /\ codeRows = 0
    /\ redeemed = [i \in {} |-> 0]
    /\ lastRedeem = [result |-> "none", row |-> 0, email |-> NoVal, code |-> NoVal]

\* requestCode(email): a new row that expires CodeTtl from now
RequestCode(email, code) ==
    /\ codeRows < MaxCodes
    /\ codeRows' = codeRows + 1
    /\ codes' = [i \in DOMAIN codes \cup {codeRows + 1} |->
                    IF i = codeRows + 1
                    THEN EmailCodeDoc(email, code, now + CodeTtl, now)
                    ELSE codes[i]]
    /\ redeemed' = [i \in DOMAIN redeemed \cup {codeRows + 1} |->
                    IF i = codeRows + 1 THEN 0 ELSE redeemed[i]]
    /\ UNCHANGED <<sideVars, lastRedeem, now, admins, sessions, reqVars, logVars, readVars, dashVars>>

\* expiresAt's index {expireAfterSeconds: 0}: the store deletes an expired row
ExpireCode(i) ==
    /\ i \in DOMAIN codes
    /\ codes[i].expiresAt <= now
    /\ codes' = [j \in DOMAIN codes \ {i} |-> codes[j]]
    /\ UNCHANGED <<sideVars, codeRows, redeemed, lastRedeem, now, admins, sessions, reqVars, logVars, readVars, dashVars>>

\* the unused rows that match (email, code)
MatchingRows(email, code) ==
    {i \in DOMAIN codes :
        /\ codes[i].email = Lowercase(email)
        /\ codes[i].code = code
        /\ ~codes[i].used}

\* now > expiresAt
CodeExpired(i) == now > codes[i].expiresAt

\* a redemption that forgets to mark the row
MarkUsedNot(i) == codes

\* the row is marked used = true
MarkUsed(i) == [codes EXCEPT ![i].used = TRUE]

\* the identity of the e-mail: the existing one, or a new one
IdentityOf(email) ==
    IF \E a \in DOMAIN admins : admins[a].email = Lowercase(email)
    THEN CHOOSE a \in DOMAIN admins : admins[a].email = Lowercase(email)
    ELSE CHOOSE a \in AdminIds : a \notin DOMAIN admins

\* the identity with the origin address added, created if it was not there
WithLogin(a, email, ip) ==
    [x \in DOMAIN admins \cup {a} |->
        IF x # a THEN admins[x]
        ELSE IF a \in DOMAIN admins
        THEN [admins[a] EXCEPT !.loggedInIps = @ \cup {ip}, !.lastActivityAt = now]
        ELSE AdminUserDoc(Lowercase(email), {ip}, now, now)]

\* redeemCode(email, code) from address ip, on the session sid of the request
RedeemCode(email, code, ip, sid) ==
    /\ UNCHANGED <<sideVars, codeRows, now, reqVars, logVars, readVars, dashVars>>
    /\ IF MatchingRows(email, code) = {}
       THEN /\ lastRedeem' = [result |-> "InvalidCode", row |-> 0,
                              email |-> email, code |-> code]
            /\ UNCHANGED <<codes, redeemed, admins, sessions>>
       ELSE \E i \in MatchingRows(email, code) :
            IF CodeExpired(i)
            THEN /\ lastRedeem' = [result |-> "ExpiredCode", row |-> i,
                                   email |-> email, code |-> code]
                 /\ UNCHANGED <<codes, redeemed, admins, sessions>>
            ELSE /\ codes' = MarkUsed(i)
                 /\ redeemed' = [redeemed EXCEPT ![i] = @ + 1]
                 /\ lastRedeem' = [result |-> "ok", row |-> i,
                                   email |-> email, code |-> code]
                 /\ LET a == IdentityOf(email)
                    IN /\ admins' = WithLogin(a, email, ip)
                       /\ sessions' = [s \in DOMAIN sessions \cup {sid} |->
                                         IF s = sid
                                         THEN [adminId |-> a, isAuthenticated |-> TRUE]
                                         ELSE sessions[s]]

-----------------------------------------------------------------------------
(* System logs: POST /logs, PUT /logs/:id/resolve, the client's bulk resolve *)

\* an absent Date field
NoDate == -1

\* a request body without fields
NoFields == [f \in {} |-> NoVal]

\* a test of the field that lets the empty string pass
FalsyAbsent(body, f) == f \notin DOMAIN body

\* !logData.f : the field is absent or the empty string
Falsy(body, f) == f \notin DOMAIN body \/ body[f] = ""

Field(body, f, default) == IF f \in DOMAIN body THEN body[f] ELSE default

\* the SystemLog schema applied to the fields given: the fields it declares,
\* resolved defaulting to false, resolvedBy and resolvedAt to absent
SystemLogSchema(fields) ==
    [level |-> fields["level"],
     message |-> fields["message"],
     source |-> fields["source"],
     timestamp |-> fields["timestamp"],
     category |-> Field(fields, "category", NoVal),
     serverId |-> Field(fields, "serverId", NoVal),
     resolved |-> Field(fields, "resolved", FALSE),
     resolvedBy |-> Field(fields, "resolvedBy", NoVal),
     resolvedAt |-> Field(fields, "resolvedAt", NoDate)]

\* a document that keeps the caller's timestamp when there is one
SystemLogDocTrusting(body, t) == SystemLogSchema(body @@ [timestamp |-> t])

\* new SystemLogModel({...logData, timestamp: new Date()}): the caller's fields
\* with timestamp overwritten by the server's clock
SystemLogDoc(body, t) == SystemLogSchema([timestamp |-> t] @@ body)

\* a document matches a filter object: every key of the filter holds, equality
\* for the fields, $gte and $lte on timestamp
MatchesFilter(doc, filter) ==
    /\ \A f \in DOMAIN filter \ {"$gte", "$lte"} : doc[f] = filter[f]
    /\ "$gte" \in DOMAIN filter => doc.timestamp >= filter["$gte"]
    /\ "$lte" \in DOMAIN filter => doc.timestamp <= filter["$lte"]

Matching(store, filter) == {i \in DOMAIN store : MatchesFilter(store[i], filter)}

\* SystemLogModel.countDocuments(filter)
CountDocuments(store, filter) == Cardinality(Matching(store, filter))

\* 60 * 60 * 1000 ms: the clock of the model counts hours
Hour == 1

\* 24 * 60 * 60 * 1000 ms
Day == 24 * Hour

\* the six counts of GET /dashboard and the filter of each
DashCountNames == {"criticalLogs24h", "errorLogs24h", "warningLogs24h",
                   "totalLogs24h", "unresolvedCritical", "unresolvedErrors"}

\* filters whose unresolved counts forget resolved: false
DashFilterAnyResolution(name, oneDayAgo) ==
    CASE name = "criticalLogs24h" -> [level |-> "critical"] @@ ("$gte" :> oneDayAgo)
      [] name = "errorLogs24h" -> [level |-> "error"] @@ ("$gte" :> oneDayAgo)
      [] name = "warningLogs24h" -> [level |-> "warning"] @@ ("$gte" :> oneDayAgo)
      [] name = "totalLogs24h" -> ("$gte" :> oneDayAgo)
      [] name = "unresolvedCritical" -> [level |-> "critical"]
      [] OTHER -> [level |-> "error"]

DashFilter(name, oneDayAgo) ==
    CASE name = "criticalLogs24h" -> [level |-> "critical"] @@ ("$gte" :> oneDayAgo)
      [] name = "errorLogs24h" -> [level |-> "error"] @@ ("$gte" :> oneDayAgo)
      [] name = "warningLogs24h" -> [level |-> "warning"] @@ ("$gte" :> oneDayAgo)
      [] name = "totalLogs24h" -> ("$gte" :> oneDayAgo)
      [] name = "unresolvedCritical" -> ("level" :> "critical") @@ ("resolved" :> FALSE)
      [] OTHER -> ("level" :> "error") @@ ("resolved" :> FALSE)

\* the six counts taken together on one state of the collection
DashCounts(store, oneDayAgo) ==
    [n \in DashCountNames |-> CountDocuments(store, DashFilter(n, oneDayAgo))]

\* the counts taken so far are those of the snapshot
Agrees(snapshot, counts) == \A n \in DOMAIN counts : counts[n] = snapshot[n]

\* history: a write to the logs is seen by the dashboard read in progress (the
\* new state of the collection is one more state the counts may all come
\* from), and is noted for the next read; a second write since the last answer
\* ends the comparison of the answers
Written(op) ==
    /\ dash' = IF dash.active /\ logs' # logs
               THEN [dash EXCEPT
                       !.raced = TRUE,
                       !.cands = @ \cup {c \in {DashCounts(logs', dash.now - Day)} :
                                            Agrees(c, dash.counts)}]
               ELSE dash
    /\ ops' = IF reads # <<>> /\ logs' # logs /\ ops = <<>> THEN <<op>>
              ELSE IF logs' # logs THEN <<>> ELSE ops
    /\ reads' = IF logs' # logs /\ ops # <<>> THEN <<>> ELSE reads

\* POST /logs; ok: whether log.save() succeeds or throws
PostLogs(body, ok) ==
    /\ Len(logs) < MaxLogs
    /\ IF Falsy(body, "level") \/ Falsy(body, "message") \/ Falsy(body, "source")
       THEN /\ logResp' = 400
            /\ logs' = logs
       ELSE IF ~ok
       THEN /\ logResp' = 500
            /\ logs' = logs
       ELSE /\ logResp' = 201
            /\ logs' = Append(logs, SystemLogDoc(body, now))
    /\ ingest' = [body |-> body, status |-> logResp']
    /\ Written([op |-> "post", id |-> Len(logs) + 1, level |-> Field(body, "level", "")])
    /\ UNCHANGED <<sideVars, batch, now, admins, sessions, reqVars, codeVars, readVars>>

\* resolvedBy || 'admin'
ResolvedBy(body) == IF Falsy(body, "resolvedBy") THEN "admin" ELSE body["resolvedBy"]

\* an update that stamps the event anew
ResolveUpdateRestamping(doc, by, t) ==
    [doc EXCEPT !.resolved = TRUE, !.resolvedBy = by, !.resolvedAt = t, !.timestamp = t]

\* findByIdAndUpdate(id, {resolved: true, resolvedBy, resolvedAt: new Date()})
ResolveUpdate(doc, by, t) ==
    [doc EXCEPT !.resolved = TRUE, !.resolvedBy = by, !.resolvedAt = t]

\* the store after PUT /logs/:id/resolve
Resolved(id, body, ok) ==
    IF ok /\ id \in DOMAIN logs
    THEN [logs EXCEPT ![id] = ResolveUpdate(logs[id], ResolvedBy(body), now)]
    ELSE logs

\* a resolve that skips unknown ids silently
ResolveStatusSilent(id, ok) == IF ~ok THEN 500 ELSE 200

\* the status PUT /logs/:id/resolve answers with
ResolveStatus(id, ok) ==
    IF ~ok THEN 500 ELSE IF id \notin DOMAIN logs THEN 404 ELSE 200

\* PUT /logs/:id/resolve, called on its own
PutResolve(id, body, ok) ==
    /\ logs' = Resolved(id, body, ok)
    /\ logResp' = ResolveStatus(id, ok)
    /\ Written([op |-> "resolve", id |-> id, level |-> ""])
    /\ UNCHANGED <<sideVars, ingest, batch, now, admins, sessions, reqVars, codeVars, readVars>>

BatchIdle == [active |-> FALSE, ids |-> {}, known |-> {}, pending |-> {},
              replies |-> [i \in {} |-> 0]]

\* resolveMutation.mutate(logIds): one resolveLog(id, 'admin') request per id,
\* all of them sent before any answer is awaited
ResolveMutation(ids) ==
    /\ ~batch.active
    /\ ids # {}
    /\ batch' = [active |-> TRUE, ids |-> ids, known |-> ids \cap DOMAIN logs,
                 pending |-> ids, replies |-> [i \in {} |-> 0]]
    /\ UNCHANGED <<sideVars, logs, logResp, ingest, now, admins, sessions, reqVars, codeVars, readVars, dashVars>>

\* the server handles one of the mutation's requests
ResolveMutationRequest(id, ok) ==
    /\ batch.active
    /\ id \in batch.pending
    /\ logs' = Resolved(id, [resolvedBy |-> "admin"], ok)
    /\ logResp' = ResolveStatus(id, ok)
    /\ batch' = [batch EXCEPT !.pending = @ \ {id},
                              !.replies = [i \in DOMAIN @ \cup {id} |->
                                             IF i = id THEN ResolveStatus(id, ok)
                                             ELSE @[i]]]
    /\ UNCHANGED <<sideVars, ingest, now, admins, sessions, reqVars, codeVars, readVars, dashVars>>

\* Promise.all has settled: the mutation is over
ResolveMutationSettled ==
    /\ batch.active
    /\ batch.pending = {}
    /\ batch' = BatchIdle
    /\ UNCHANGED <<sideVars, logs, logResp, ingest, now, admins, sessions, reqVars, codeVars, readVars, dashVars>>

IngestIdle == [body |-> NoFields, status |-> 0]

LogsIdle ==
    /\ logs = <<>>
    /\ logResp = 0
    /\ ingest = IngestIdle
    /\ batch = BatchIdle

LogIds == 0..MaxLogs

\* request bodies of POST /logs: the required fields and what a caller may add
LevelFields == {NoFields, [level |-> ""], [level |-> "error"]}
ResolutionFields ==
    {a @@ b @@ c : a \in {NoFields, [resolved |-> TRUE]},
                   b \in {NoFields, [resolvedBy |-> "bob"]},
                   c \in {NoFields, [resolvedAt |-> 0]}}
TimestampFields == {NoFields, [timestamp |-> 0]}
IngestBodies ==
    {[message |-> "m", source |-> "tenant-7"] @@ l @@ x @@ t :
        l \in LevelFields, x \in ResolutionFields, t \in TimestampFields}
\* bodies with a level and without a message or a source
PartialBodies ==
    {[level |-> "error"] @@ m @@ src :
        m \in {NoFields, [message |-> ""], [message |-> "m"]},
        src \in {NoFields, [source |-> ""], [source |-> "tenant-7"]}}
PlainBodies ==
    {[message |-> "m", source |-> "tenant-7"] @@ l : l \in LevelFields}

\* request bodies of PUT /logs/:id/resolve
ResolveBodies == {NoFields, [resolvedBy |-> ""], [resolvedBy |-> "bob"]}

-----------------------------------------------------------------------------

(* GET /logs: filtering and pagination *)

\* Math.min(..., 100): the most documents a page asks the collection for
LimitCap == 100

Min(a, b) == IF a <= b THEN a ELSE b
Max(a, b) == IF a >= b THEN a ELSE b
Abs(a) == IF a < 0 THEN 0 - a ELSE a

\* if (x): the query parameter is present and not the empty string
Truthy(q, f) == f \in DOMAIN q /\ q[f] # ""

\* parseInt(page), page = 1 when absent
PageNum(q) == Field(q, "page", 1)

\* Math.min(parseInt(limit), 100), limit = 50 when absent
LimitNum(q) == Min(Field(q, "limit", 50), LimitCap)

\* (pageNum - 1) * limitNum
Skip(q) == (PageNum(q) - 1) * LimitNum(q)

\* the filter object built from the query parameters
EqualityFilters == {"level", "source", "serverId", "category"}

\* a filter object whose resolved is Boolean(resolved): true for any string
BuildFilterBoolean(q) ==
    LET eq == {f \in EqualityFilters : f \in DOMAIN q /\ q[f] # ""}
    IN [f \in eq |-> q[f]]
       @@ (IF "resolved" \in DOMAIN q THEN "resolved" :> TRUE ELSE NoFields)
       @@ (IF "startDate" \in DOMAIN q THEN "$gte" :> q["startDate"] ELSE NoFields)
       @@ (IF "endDate" \in DOMAIN q THEN "$lte" :> q["endDate"] ELSE NoFields)

BuildFilter(q) ==
    LET eq == {f \in EqualityFilters : Truthy(q, f)}
    IN [f \in eq |-> q[f]]
       @@ (IF "resolved" \in DOMAIN q
           THEN "resolved" :> (q["resolved"] = "true") ELSE NoFields)
       @@ (IF "startDate" \in DOMAIN q THEN "$gte" :> q["startDate"] ELSE NoFields)
       @@ (IF "endDate" \in DOMAIN q THEN "$lte" :> q["endDate"] ELSE NoFields)

\* sort({timestamp: -1}): the ids by descending timestamp, in insertion order
\* among equal timestamps
RECURSIVE SortDesc(_, _)
SortDesc(store, ids) ==
    IF ids = {} THEN <<>>
    ELSE LET first == CHOOSE i \in ids :
                        \A j \in ids : \/ store[i].timestamp > store[j].timestamp
                                       \/ /\ store[i].timestamp = store[j].timestamp
                                          /\ i <= j
         IN <<first>> \o SortDesc(store, ids \ {first})

\* cursor.limit(n): 0 is no limit, a negative n is the limit -n
CursorLimit(n, len) == IF n = 0 THEN len ELSE Min(Abs(n), len)

\* find(filter).sort(sortObj).skip(skip).limit(limitNum); defined for skip >= 0
Find(store, filter, skip, limitNum) ==
    LET sorted == SortDesc(store, Matching(store, filter))
        rest == SubSeq(sorted, skip + 1, Len(sorted))
    IN SubSeq(rest, 1, CursorLimit(limitNum, Len(rest)))

\* a JavaScript number as JSON sees it
Finite(n) == [kind |-> "finite", value |-> n]
NotFinite(k) == [kind |-> k, value |-> 0]

\* Math.ceil(total / limitNum), total >= 0
CeilDiv(total, limitNum) ==
    IF limitNum > 0 THEN Finite((total + limitNum - 1) \div limitNum)
    ELSE IF limitNum < 0 THEN Finite(0 - (total \div (0 - limitNum)))
    ELSE IF total = 0 THEN NotFinite("NaN")
    ELSE NotFinite("Infinity")

QueryIdle == [status |-> 0, q |-> NoFields, db |-> TRUE, logs |-> <<>>, page |-> 0,
              limit |-> 0, total |-> 0, pages |-> Finite(0)]

\* GET /logs; ok: whether the collection answers. A negative skip makes the
\* find throw, like a collection that does not answer.
GetLogs(q, ok) ==
    /\ query' =
         IF ~ok \/ Skip(q) < 0
         THEN [QueryIdle EXCEPT !.status = 500, !.q = q, !.db = ok]
         ELSE LET filter == BuildFilter(q)
                  total == CountDocuments(logs, filter)
              IN [status |-> 200, q |-> q, db |-> ok,
                  logs |-> Find(logs, filter, Skip(q), LimitNum(q)),
                  page |-> PageNum(q), limit |-> LimitNum(q),
                  total |-> total, pages |-> CeilDiv(total, LimitNum(q))]
    /\ UNCHANGED <<sideVars, now, admins, sessions, reqVars, codeVars, logVars,
                   servers, sources, health, dashVars>>

-----------------------------------------------------------------------------

(* GET /sources: two handlers registered on the same path *)

\* the strings of the model in the order of Array.prototype.sort()
Lexicographic == <<"", "billing", "system", "tenant-7">>

Rank(x) == CHOOSE k \in DOMAIN Lexicographic : Lexicographic[k] = x

\* the sequences that list a set once each
Orderings(S) ==
    {o \in [1..Cardinality(S) -> S] : \A a, b \in DOMAIN o : o[a] = o[b] => a = b}

\* SystemLogModel.distinct(field): the values of the field in the documents,
\* in an order the collection chooses
Distinct(store, f) == {store[i][f] : i \in DOMAIN store} \ {NoVal}

\* array.sort()
Sort(S) == CHOOSE o \in Orderings(S) :
              \A a, b \in DOMAIN o : a < b => Rank(o[a]) < Rank(o[b])

\* array.filter(Boolean) on an array of strings
FilterBoolean(o) == SelectSeq(o, LAMBDA x : x # "")

\* the handler registered first (sources.sort())
SourcesFirst(srcs) ==
    [status |-> 200, kind |-> "array", sources |-> Sort(srcs), categories |-> <<>>]

\* the handler registered second ({sources, categories}, each filter(Boolean))
SourcesSecond(srcOrder, catOrder) ==
    [status |-> 200, kind |-> "object", sources |-> FilterBoolean(srcOrder),
     categories |-> FilterBoolean(catOrder)]

SourcesFailed == [status |-> 500, kind |-> "none", sources |-> <<>>, categories |-> <<>>]

SourcesIdle == [status |-> 0, kind |-> "none", sources |-> <<>>, categories |-> <<>>]

\* the router's stack for GET /sources, in registration order; a handler that
\* answers without calling next() ends the dispatch
SourcesStack == <<"first", "second">>

\* GET /sources; ok: whether the collection answers
GetSources(ok) ==
    /\ \E srcOrder \in Orderings(Distinct(logs, "source")),
          catOrder \in Orderings(Distinct(logs, "category")) :
         sources' = IF ~ok THEN SourcesFailed
                    ELSE IF Head(SourcesStack) = "first"
                    THEN SourcesFirst(Distinct(logs, "source"))
                    ELSE SourcesSecond(srcOrder, catOrder)
    /\ UNCHANGED <<sideVars, now, admins, sessions, reqVars, codeVars, logVars,
                   servers, query, health, dashVars>>

-----------------------------------------------------------------------------

(* calculateSystemHealth and the dashboard's status of a score *)

\* Math.round(num / den), den > 0: the nearest integer, a half rounding up
Round(num, den) == (2 * num + den) \div (2 * den)

\* a calculateSystemHealth that leaves out Math.round
calculateSystemHealthUnrounded(metrics) ==
    LET rest == 100 - Min(metrics.criticalLogs24h * 5, 25)
                    - Min(metrics.errorLogs24h * 1, 20)
                    - metrics.unresolvedCritical * 10
                    - metrics.unresolvedErrors * 3
    IN IF metrics.totalServers > 0
       THEN Max(0, (rest * metrics.totalServers - metrics.failedServers * 30)
                      \div metrics.totalServers)
       ELSE Max(0, rest)

\* a calculateSystemHealth that takes the magnitude of a negative score
calculateSystemHealthMagnitude(metrics) ==
    LET rest == 100 - Min(metrics.criticalLogs24h * 5, 25)
                    - Min(metrics.errorLogs24h * 1, 20)
                    - metrics.unresolvedCritical * 10
                    - metrics.unresolvedErrors * 3
    IN IF metrics.totalServers > 0
       THEN Abs(Round(rest * metrics.totalServers - metrics.failedServers * 30,
                      metrics.totalServers))
       ELSE Abs(rest)

\* calculateSystemHealth(metrics): score = 100, less failureRate * 30 when there
\* are servers, less the penalties of the log counts; Math.max(0, Math.round(score)).
\* The score before rounding is the fraction
\* (rest * totalServers - failedServers * 30) / totalServers.
calculateSystemHealth(metrics) ==
    LET rest == 100 - Min(metrics.criticalLogs24h * 5, 25)
                    - Min(metrics.errorLogs24h * 1, 20)
                    - metrics.unresolvedCritical * 10
                    - metrics.unresolvedErrors * 3
    IN IF metrics.totalServers > 0
       THEN Max(0, Round(rest * metrics.totalServers - metrics.failedServers * 30,
                         metrics.totalServers))
       ELSE Max(0, rest)

\* healthScore >= 95 ? 'excellent' : >= 85 ? 'good' : >= 70 ? 'fair' : 'poor'
HealthStatus(healthScore) ==
    IF healthScore >= 95 THEN "excellent"
    ELSE IF healthScore >= 85 THEN "good"
    ELSE IF healthScore >= 70 THEN "fair"
    ELSE "poor"

Metrics(total, failed, critical, error, unresolvedCritical, unresolvedErrors) ==
    [totalServers |-> total, activeServers |-> Max(total - failed, 0),
     failedServers |-> failed, criticalLogs24h |-> critical, errorLogs24h |-> error,
     unresolvedCritical |-> unresolvedCritical, unresolvedErrors |-> unresolvedErrors]

NoMetrics == Metrics(0, 0, 0, 0, 0, 0)

\* raised, before: the count that was raised for this call, and the score of
\* the call before it
HealthIdle == [called |-> FALSE, metrics |-> NoMetrics, score |-> 0, status |-> "none",
               raised |-> "none", before |-> 0]

\* the systemHealth of a dashboard answer for the metrics
SystemHealth(metrics) ==
    [called |-> TRUE, metrics |-> metrics, score |-> calculateSystemHealth(metrics),
     status |-> HealthStatus(calculateSystemHealth(metrics)),
     raised |-> "none", before |-> 0]

\* the counts the health score is computed for
MaxServers == 4
MaxCritical == 6
MaxUnresolved == 3
ErrorCounts == {0, 1, 19, 20, 21}
MetricInputs ==
    {Metrics(t, f, c, e, uc, ue) :
        t \in 0..MaxServers, f \in 0..MaxServers, c \in 0..MaxCritical,
        e \in ErrorCounts, uc \in 0..MaxUnresolved, ue \in 0..MaxUnresolved}

\* the health score is computed for the counts at hand
CalculateSystemHealth ==
    /\ ~health.called
    /\ health' = SystemHealth(health.metrics)
    /\ UNCHANGED <<sideVars, now, admins, sessions, reqVars, codeVars, logVars,
                   servers, query, sources, dashVars>>

\* one more unresolved critical log, and the score computed again
RaiseUnresolvedCritical ==
    /\ health.called
    /\ health.metrics.unresolvedCritical < MaxUnresolved
    /\ health' = [SystemHealth([health.metrics EXCEPT !.unresolvedCritical = @ + 1])
                    EXCEPT !.raised = "unresolvedCritical", !.before = health.score]
    /\ UNCHANGED <<sideVars, now, admins, sessions, reqVars, codeVars, logVars,
                   servers, query, sources, dashVars>>

\* one more failed server, and the score computed again
RaiseFailedServers ==
    /\ health.called
    /\ health.metrics.failedServers < MaxServers
    /\ health' = [SystemHealth([health.metrics EXCEPT !.failedServers = @ + 1])
                    EXCEPT !.raised = "failedServers", !.before = health.score]
    /\ UNCHANGED <<sideVars, now, admins, sessions, reqVars, codeVars, logVars,
                   servers, query, sources, dashVars>>

-----------------------------------------------------------------------------

(* getLogTrends: the events of a window, bucketed by calendar day and level *)

\* $dateToString {format: "%Y-%m-%d"}: the calendar day (UTC) of a timestamp
DateToString(t) == t \div Day

\* $sum over the documents of a group
RECURSIVE SumCounts(_)
SumCounts(S) ==
    IF S = {} THEN 0
    ELSE LET x == CHOOSE y \in S : TRUE IN x.count + SumCounts(S \ {x})

\* $sort {_id: 1}
RECURSIVE SortById(_)
SortById(S) ==
    IF S = {} THEN <<>>
    ELSE LET x == CHOOSE y \in S : \A z \in S : y._id <= z._id
         IN <<x>> \o SortById(S \ {x})

\* a pipeline whose $match has no upper end
getLogTrendsOpenEnded(store, startDate, endDate) ==
    LET matched == Matching(store, ("$gte" :> startDate))
        key(i) == [date |-> DateToString(store[i].timestamp), level |-> store[i].level]
        byDateLevel == {[_id |-> k, count |-> Cardinality({i \in matched : key(i) = k})]
                           : k \in {key(i) : i \in matched}}
        byDate == {[_id |-> d,
                    levels |-> {[level |-> g._id.level, count |-> g.count]
                                   : g \in {h \in byDateLevel : h._id.date = d}},
                    total |-> SumCounts({h \in byDateLevel : h._id.date = d})]
                      : d \in {g._id.date : g \in byDateLevel}}
    IN SortById(byDate)

\* the pipeline: $match, $group by (date, level), $group by date, $sort; the
\* order of the pushed levels of a bucket is not specified: they are a set
getLogTrends(store, startDate, endDate) ==
    LET matched == Matching(store, ("$gte" :> startDate) @@ ("$lte" :> endDate))
        key(i) == [date |-> DateToString(store[i].timestamp), level |-> store[i].level]
        byDateLevel == {[_id |-> k, count |-> Cardinality({i \in matched : key(i) = k})]
                           : k \in {key(i) : i \in matched}}
        byDate == {[_id |-> d,
                    levels |-> {[level |-> g._id.level, count |-> g.count]
                                   : g \in {h \in byDateLevel : h._id.date = d}},
                    total |-> SumCounts({h \in byDateLevel : h._id.date = d})]
                      : d \in {g._id.date : g \in byDateLevel}}
    IN SortById(byDate)

TrendIdle == [asked |-> FALSE, startDate |-> 0, endDate |-> 0, buckets |-> <<>>]

\* a call of getLogTrends on the collection
GetLogTrends(startDate, endDate) ==
    /\ trend' = [asked |-> TRUE, startDate |-> startDate, endDate |-> endDate,
                 buckets |-> getLogTrends(logs, startDate, endDate)]
    /\ UNCHANGED <<now, admins, sessions, reqVars, codeVars, logVars, readVars, dashVars,
                   modlServers, analytics, healthCheck, auditLogs, securityEvents, appends>>

-----------------------------------------------------------------------------

(* GET /dashboard: the counts are separate reads of the collections *)

\* ModlServerModel.countDocuments() and countDocuments({provisioningStatus: 'failed'})
ServerCounts(coll) ==
    [total |-> Len(coll),
     failed |-> Cardinality({i \in DOMAIN coll : coll[i] = "failed"})]

DashIdle == [active |-> FALSE, now |-> 0, servers |-> ServerCounts(<<>>),
             pending |-> {}, counts |-> [n \in {} |-> 0], cands |-> {},
             raced |-> FALSE]

\* the handler starts: now = new Date(), the server counts, and the six counts
\* of the logs sent to the collection together (Promise.all)
DashboardStart ==
    /\ ~dash.active
    /\ dash' = [active |-> TRUE, now |-> now, servers |-> ServerCounts(servers),
                pending |-> DashCountNames, counts |-> [n \in {} |-> 0],
                cands |-> {DashCounts(logs, now - Day)}, raced |-> FALSE]
    /\ UNCHANGED <<sideVars, reads, ops, now, admins, sessions, reqVars, codeVars, logVars, readVars>>

\* the collection serves one of the six counts
DashboardCount(name) ==
    /\ dash.active
    /\ name \in dash.pending
    /\ LET count == CountDocuments(logs, DashFilter(name, dash.now - Day))
       IN dash' = [dash EXCEPT
                     !.pending = @ \ {name},
                     !.counts = (name :> count) @@ @,
                     !.cands = {c \in @ : c[name] = count}]
    /\ UNCHANGED <<sideVars, reads, ops, now, admins, sessions, reqVars, codeVars, logVars, readVars>>

\* the metrics handed to calculateSystemHealth
DashMetrics(d) ==
    [totalServers |-> d.servers.total,
     activeServers |-> 0,
     failedServers |-> d.servers.failed,
     criticalLogs24h |-> d.counts["criticalLogs24h"],
     errorLogs24h |-> d.counts["errorLogs24h"],
     unresolvedCritical |-> d.counts["unresolvedCritical"],
     unresolvedErrors |-> d.counts["unresolvedErrors"]]

\* the answer of GET /dashboard, with the write that came before it
DashboardAnswer(d, after) ==
    [lastUpdated |-> d.now, servers |-> d.servers, counts |-> d.counts,
     score |-> calculateSystemHealth(DashMetrics(d)),
     status |-> HealthStatus(calculateSystemHealth(DashMetrics(d))),
     trends |-> getLogTrends(logs, d.now - 7 * Day, d.now),
     after |-> after]

\* all counts are in: the score is computed, the trends of the last week are
\* read and the answer sent
DashboardRespond ==
    /\ dash.active
    /\ dash.pending = {}
    /\ reads' = IF dash.raced THEN <<>>
                ELSE IF reads = <<>> \/ ops = <<>> THEN <<DashboardAnswer(dash, <<>>)>>
                ELSE <<reads[Len(reads)], DashboardAnswer(dash, ops)>>
    /\ ops' = <<>>
    /\ dash' = DashIdle
    /\ UNCHANGED <<sideVars, now, admins, sessions, reqVars, codeVars, logVars, readVars>>

\* a count throws: 500 'Failed to fetch dashboard metrics'
DashboardFail ==
    /\ dash.active
    /\ dash.pending # {}
    /\ reads' = <<>>
    /\ ops' = <<>>
    /\ dash' = DashIdle
    /\ UNCHANGED <<sideVars, now, admins, sessions, reqVars, codeVars, logVars, readVars>>

\* the answers of the last GET /logs, GET /sources, calculateSystemHealth and
\* GET /dashboard before any was made
ReadIdle ==
    /\ servers = <<>>
    /\ query = QueryIdle
    /\ sources = SourcesIdle
    /\ health = HealthIdle
    /\ dash = DashIdle
    /\ reads = <<>>
    /\ ops = <<>>

-----------------------------------------------------------------------------

(* GET /analytics/dashboard: growth, plan distribution, registration trend *)

\* const { range = '30d' } = req.query; the days of the range
Days(q) ==
    LET range == Field(q, "range", "30d")
    IN CASE range = "7d" -> 7
         [] range = "30d" -> 30
         [] range = "90d" -> 90
         [] OTHER -> 365

\* countDocuments({createdAt: {$gte: startDate}})
currentPeriodServers(coll, startDate) ==
    Cardinality({i \in DOMAIN coll : coll[i].createdAt >= startDate})

\* countDocuments({createdAt: {$gte: previousStartDate, $lt: startDate}})
previousPeriodServers(coll, previousStartDate, startDate) ==
    Cardinality({i \in DOMAIN coll : /\ coll[i].createdAt >= previousStartDate
                                     /\ coll[i].createdAt < startDate})

\* a growth rate that is the ratio of the periods
serverGrowthRateRatio(current, previous) ==
    IF previous > 0 THEN [num |-> current * 100, den |-> previous]
    ELSE IF current > 0 THEN [num |-> 100, den |-> 1]
    ELSE [num |-> 0, den |-> 1]

\* the growth rate, as the fraction num / den
serverGrowthRate(current, previous) ==
    IF previous > 0 THEN [num |-> (current - previous) * 100, den |-> previous]
    ELSE IF current > 0 THEN [num |-> 100, den |-> 1]
    ELSE [num |-> 0, den |-> 1]

\* x.toFixed(2), in hundredths
ToFixed2(x) ==
    IF x.num >= 0 THEN Round(x.num * 100, x.den)
    ELSE 0 - Round((0 - x.num) * 100, x.den)

\* $group {_id: '$plan', value: {$sum: 1}}, $project {name: '$_id', value: 1};
\* the order of the groups is not specified: they are a set
planDistribution(coll) ==
    {[name |-> plan, value |-> Cardinality({i \in DOMAIN coll : coll[i].plan = plan})]
        : plan \in {coll[i].plan : i \in DOMAIN coll}}

\* planDistribution.reduce((acc, p) => acc + p.value, 1)
RECURSIVE totalPlanServers(_)
totalPlanServers(dist) ==
    IF dist = {} THEN 1
    ELSE LET p == CHOOSE x \in dist : TRUE IN totalPlanServers(dist \ {p}) + p.value

\* percentage: Math.round((p.value / totalPlanServers) * 100)
byPlan(dist) ==
    {[name |-> p.name, value |-> p.value,
      percentage |-> Round(p.value * 100, totalPlanServers(dist))] : p \in dist}

\* $sort {_id: 1}, $project {date: '$_id', servers: 1}
RECURSIVE SortByDate(_)
SortByDate(S) ==
    IF S = {} THEN <<>>
    ELSE LET x == CHOOSE y \in S : \A z \in S : y.date <= z.date
         IN <<x>> \o SortByDate(S \ {x})

\* $match {createdAt: {$gte: startDate}}, $group by day with servers: {$sum: 1}
registrationTrend(coll, startDate) ==
    LET matched == {i \in DOMAIN coll : coll[i].createdAt >= startDate}
    IN SortByDate({[date |-> d,
                    servers |-> Cardinality({i \in matched :
                                               DateToString(coll[i].createdAt) = d})]
                      : d \in {DateToString(coll[i].createdAt) : i \in matched}})

\* a trend whose cumulative field repeats the count of the day
trendWithCount(trendSeq) ==
    [k \in DOMAIN trendSeq |->
        [date |-> trendSeq[k].date, servers |-> trendSeq[k].servers,
         cumulative |-> trendSeq[k].servers]]

\* let cumulative = 0; registrationTrend.map(d => { cumulative += d.servers; ... })
RECURSIVE Cumulative(_, _)
Cumulative(trendSeq, k) ==
    IF k = 0 THEN 0 ELSE Cumulative(trendSeq, k - 1) + trendSeq[k].servers

trendWithCumulative(trendSeq) ==
    [k \in DOMAIN trendSeq |->
        [date |-> trendSeq[k].date, servers |-> trendSeq[k].servers,
         cumulative |-> Cumulative(trendSeq, k)]]

AnalyticsIdle ==
    [status |-> 0, db |-> TRUE, days |-> 0, startDate |-> 0, previousStartDate |-> 0,
     current |-> 0, previous |-> 0, growth |-> [num |-> 0, den |-> 1],
     serverGrowthRate |-> 0, byPlan |-> {}, registrationTrend |-> <<>>]

\* GET /analytics/dashboard; ok: whether every read of the store succeeds.
\* startDate.setDate(getDate() - days) moves the date by whole days
GetAnalytics(q, ok) ==
    LET days == Days(q)
        startDate == now - days * Day
        previousStartDate == startDate - days * Day
        current == currentPeriodServers(modlServers, startDate)
        previous == previousPeriodServers(modlServers, previousStartDate, startDate)
    IN /\ analytics' =
            IF ~ok THEN [AnalyticsIdle EXCEPT !.status = 500, !.db = FALSE, !.days = days]
            ELSE [status |-> 200, db |-> TRUE, days |-> days, startDate |-> startDate,
                  previousStartDate |-> previousStartDate,
                  current |-> current, previous |-> previous,
                  growth |-> serverGrowthRate(current, previous),
                  serverGrowthRate |-> ToFixed2(serverGrowthRate(current, previous)),
                  byPlan |-> byPlan(planDistribution(modlServers)),
                  registrationTrend |->
                      trendWithCumulative(registrationTrend(modlServers, startDate))]
       /\ UNCHANGED <<now, admins, sessions, reqVars, codeVars, logVars, readVars, dashVars,
                      trend, modlServers, healthCheck, auditLogs, securityEvents, appends>>

-----------------------------------------------------------------------------

(* GET /health: the checks and the overall status *)

\* the Database check: SystemLogModel.findOne().limit(1) answers or throws
DatabaseCheck(dbOk) ==
    IF dbOk THEN [name |-> "Database", status |-> "healthy", count |-> 0]
    ELSE [name |-> "Database", status |-> "critical", count |-> 0]

\* the Error Rate check: the unresolved critical events of the last hour are
\* counted, or the count throws
ErrorRateCheck(store, time, countOk) ==
    LET recentCritical ==
            CountDocuments(store, ("level" :> "critical") @@ ("$gte" :> time - Hour)
                                     @@ ("resolved" :> FALSE))
    IN IF countOk
       THEN [name |-> "Error Rate",
             status |-> IF recentCritical = 0 THEN "healthy"
                        ELSE IF recentCritical < 5 THEN "degraded" ELSE "critical",
             count |-> recentCritical]
       ELSE [name |-> "Error Rate", status |-> "unknown", count |-> 0]

performHealthChecks(store, time, dbOk, countOk) ==
    <<DatabaseCheck(dbOk), ErrorRateCheck(store, time, countOk)>>

\* an overall status that is never critical
overallStatusNeverCritical(checks) ==
    IF \A k \in DOMAIN checks : checks[k].status = "healthy" THEN "healthy"
    ELSE "degraded"

overallStatus(checks) ==
    IF \A k \in DOMAIN checks : checks[k].status = "healthy" THEN "healthy"
    ELSE IF \E k \in DOMAIN checks : checks[k].status = "critical" THEN "critical"
    ELSE "degraded"

HealthCheckIdle ==
    [status |-> 0, overall |-> "", checks |-> <<>>, timestamp |-> 0,
     dbOk |-> TRUE, countOk |-> TRUE]

\* GET /health; dbOk, countOk: whether the read of each check succeeds
GetHealth(dbOk, countOk) ==
    /\ healthCheck' =
          [status |-> 200,
           overall |-> overallStatus(performHealthChecks(logs, now, dbOk, countOk)),
           checks |-> performHealthChecks(logs, now, dbOk, countOk),
           timestamp |-> now, dbOk |-> dbOk, countOk |-> countOk]
    /\ UNCHANGED <<now, admins, sessions, reqVars, codeVars, logVars, readVars, dashVars,
                   trend, modlServers, analytics, auditLogs, securityEvents, appends>>

-----------------------------------------------------------------------------

(* The in-memory audit log and security events of the security routes; an
   entry is modelled by its timestamp and its action or type *)

\* the lengths the lists are cut to
AuditCap == 1000
SecurityCap == 500

\* the numbers of entries made by initializeMockData
MockAuditCount == 50
MockSecurityCount == 30

\* initializeMockData at time 0: one audit entry per day and one security
\* event per hour back from now, pushed newest first
MockAuditLogs ==
    [i \in 1..MockAuditCount |->
        [timestamp |-> 0 - (i - 1) * Day, action |-> "config_update"]]

MockSecurityEvents ==
    [i \in 1..MockSecurityCount |->
        [timestamp |-> 0 - (i - 1) * Hour, action |-> "login_failure"]]

\* list.unshift(entry)
Unshift(list, entry) == <<entry>> \o list

\* if (list.length > cap) list.splice(cap)
Splice(list, cap) == IF Len(list) > cap THEN SubSeq(list, 1, cap) ELSE list

AppendsIdle == [count |-> 0, list |-> "", entry |-> [timestamp |-> 0, action |-> ""]]

\* logAuditEvent(data)
LogAuditEvent(action) ==
    LET entry == [timestamp |-> now, action |-> action]
    IN /\ auditLogs' = Splice(Unshift(auditLogs, entry), AuditCap)
       /\ appends' = [count |-> appends.count + 1, list |-> "audit", entry |-> entry]
       /\ UNCHANGED <<now, admins, sessions, reqVars, codeVars, logVars, readVars, dashVars,
                      trend, modlServers, analytics, healthCheck, securityEvents>>

\* logSecurityEvent(data)
LogSecurityEvent(type) ==
    LET entry == [timestamp |-> now, action |-> type]
    IN /\ securityEvents' = Splice(Unshift(securityEvents, entry), SecurityCap)
       /\ appends' = [count |-> appends.count + 1, list |-> "security", entry |-> entry]
       /\ UNCHANGED <<now, admins, sessions, reqVars, codeVars, logVars, readVars, dashVars,
                      trend, modlServers, analytics, healthCheck, auditLogs>>

\* POST /test: the test is logged to the audit log and its results answered
PostTest ==
    LET entry == [timestamp |-> now, action |-> "security_test"]
    IN /\ auditLogs' = Unshift(auditLogs, entry)
       /\ appends' = [count |-> appends.count + 1, list |-> "audit", entry |-> entry]
       /\ UNCHANGED <<now, admins, sessions, reqVars, codeVars, logVars, readVars, dashVars,
                      trend, modlServers, analytics, healthCheck, securityEvents>>

\* the lists after the module is loaded
ListsIdle ==
    /\ auditLogs = MockAuditLogs
    /\ securityEvents = MockSecurityEvents
    /\ appends = AppendsIdle

-----------------------------------------------------------------------------

(* The state of the other routes before any request *)

SideIdle ==
    /\ trend = TrendIdle
    /\ modlServers = <<>>
    /\ analytics = AnalyticsIdle
    /\ healthCheck = HealthCheckIdle
    /\ ListsIdle

-----------------------------------------------------------------------------

(* The specifications *)

InitCode ==
    /\ nodeEnv = "production"
    /\ now = 0
    /\ \E D \in SUBSET AdminIds :
          admins \in [D -> {AdminUserDoc("ops@example.com", {}, 0, 0)}]
    /\ sessions = [s \in {} |-> EmptySession]
    /\ reqs = [r \in Reqs |-> ReqIdle]
    /\ arrival = [r \in Reqs |-> ArrivalIdle]
    /\ CodesIdle
    /\ SideIdle
    /\ LogsIdle
    /\ ReadIdle

NextCode ==
    \/ \E e \in Emails, c \in CodeDigits : RequestCode(e, c)
    \/ \E e \in Emails, c \in CodeDigits, ip \in IPs, sid \in StoredSids :
          RedeemCode(e, c, ip, sid)
    \/ \E i \in 1..MaxCodes : ExpireCode(i)
    \/ Tick

SpecCode == InitCode /\ [][NextCode]_vars

InitLog ==
    /\ nodeEnv = "production"
    /\ now = 0
    /\ admins = [a \in {} |-> NoVal]
    /\ sessions = [s \in {} |-> EmptySession]
    /\ reqs = [r \in Reqs |-> ReqIdle]
    /\ arrival = [r \in Reqs |-> ArrivalIdle]
    /\ CodesIdle
    /\ SideIdle
    /\ LogsIdle
    /\ ReadIdle

NextLog ==
    \/ \E body \in IngestBodies \cup PartialBodies, ok \in BOOLEAN : PostLogs(body, ok)
    \/ \E id \in LogIds, body \in ResolveBodies, ok \in BOOLEAN : PutResolve(id, body, ok)
    \/ Tick

SpecLog == InitLog /\ [][NextLog]_vars

NextBulk ==
    \/ \E body \in PlainBodies, ok \in BOOLEAN : PostLogs(body, ok)
    \/ \E ids \in SUBSET LogIds : ResolveMutation(ids)
    \/ \E id \in LogIds, ok \in BOOLEAN : ResolveMutationRequest(id, ok)
    \/ ResolveMutationSettled
    \/ Tick

SpecBulk == InitLog /\ [][NextBulk]_vars

\* the logs GET /logs and GET /sources are asked about: what POST /logs and
\* PUT /logs/:id/resolve leave in the collection, oldest first
QueryBodies ==
    {[level |-> "error", message |-> "m", source |-> "tenant-7",
      category |-> "billing", serverId |-> "srv1"],
     [level |-> "info", message |-> "m", source |-> "system"],
     [level |-> "error", message |-> "m", source |-> "system", category |-> ""]}

QueryDocs ==
    LET fresh == {SystemLogDoc(b, t) : b \in QueryBodies, t \in {0, MaxTime}}
    IN fresh \cup {ResolveUpdate(d, "admin", MaxTime) : d \in fresh}

QueryStores ==
    UNION {{st \in [1..n -> QueryDocs] :
              \A i, j \in 1..n : i < j => st[i].timestamp <= st[j].timestamp}
           : n \in 0..MaxLogs}

\* the query parameters of GET /logs, parsed: filters with default pagination,
\* and pagination without filters
FilterQueries ==
    {a @@ b @@ c @@ d @@ e @@ f @@ g :
        a \in {NoFields, [level |-> ""], [level |-> "error"]},
        b \in {NoFields, [source |-> "system"]},
        c \in {NoFields, [serverId |-> "srv1"]},
        d \in {NoFields, [category |-> "billing"]},
        e \in {NoFields, [resolved |-> "true"], [resolved |-> "false"]},
        f \in {NoFields, [startDate |-> 1]},
        g \in {NoFields, [endDate |-> 1]}}

PageQueries ==
    {a @@ b : a \in {NoFields} \cup {[limit |-> n] : n \in {-1, 0, 1, 2, 101}},
              b \in {NoFields} \cup {[page |-> n] : n \in {0, 1, 2}}}

InitQuery ==
    /\ nodeEnv = "production"
    /\ now = MaxTime
    /\ admins = [a \in {} |-> NoVal]
    /\ sessions = [s \in {} |-> EmptySession]
    /\ reqs = [r \in Reqs |-> ReqIdle]
    /\ arrival = [r \in Reqs |-> ArrivalIdle]
    /\ CodesIdle
    /\ SideIdle
    /\ logs \in QueryStores
    /\ logResp = 0
    /\ ingest = IngestIdle
    /\ batch = BatchIdle
    /\ ReadIdle

NextQuery ==
    \/ /\ query = QueryIdle
       /\ \E q \in FilterQueries \cup PageQueries, ok \in BOOLEAN : GetLogs(q, ok)
    \/ /\ sources = SourcesIdle
       /\ \E ok \in BOOLEAN : GetSources(ok)

SpecQuery == InitQuery /\ [][NextQuery]_vars

InitHealth ==
    /\ nodeEnv = "production"
    /\ now = 0
    /\ admins = [a \in {} |-> NoVal]
    /\ sessions = [s \in {} |-> EmptySession]
    /\ reqs = [r \in Reqs |-> ReqIdle]
    /\ arrival = [r \in Reqs |-> ArrivalIdle]
    /\ CodesIdle
    /\ SideIdle
    /\ LogsIdle
    /\ servers = <<>>
    /\ query = QueryIdle
    /\ sources = SourcesIdle
    /\ \E m \in MetricInputs : health = [HealthIdle EXCEPT !.metrics = m]
    /\ dash = DashIdle
    /\ reads = <<>>
    /\ ops = <<>>

NextHealth ==
    \/ CalculateSystemHealth
    \/ RaiseUnresolvedCritical
    \/ RaiseFailedServers

SpecHealth == InitHealth /\ [][NextHealth]_vars

\* the servers collection the dashboard counts, by provisioningStatus
ServerColls ==
    {<<>>, <<"failed", "completed", "completed", "completed">>}

DashLevels == {"critical", "error"}

DashBodies == {[level |-> l, message |-> "m", source |-> "tenant-7"] : l \in DashLevels}

\* the logs the dashboard is asked about: what POST /logs and
\* PUT /logs/:id/resolve left in the collection up to now (more than a day
\* ago or within the last day), oldest first, with room for one more
\* the time of the dashboard reads: more than a day after time 0
DashNow == Day + 1

DashDocs ==
    LET fresh == {SystemLogDoc(b, t) : b \in DashBodies, t \in {0, DashNow}}
    IN fresh \cup {ResolveUpdate(d, "admin", DashNow) : d \in fresh}

DashStores ==
    UNION {{st \in [1..n -> DashDocs] :
              \A i, j \in 1..n : i < j => st[i].timestamp <= st[j].timestamp}
           : n \in 0..(MaxLogs - 1)}

InitDash ==
    /\ nodeEnv = "production"
    /\ now = DashNow
    /\ admins = [a \in {} |-> NoVal]
    /\ sessions = [s \in {} |-> EmptySession]
    /\ reqs = [r \in Reqs |-> ReqIdle]
    /\ arrival = [r \in Reqs |-> ArrivalIdle]
    /\ CodesIdle
    /\ SideIdle
    /\ logs \in DashStores
    /\ logResp = 0
    /\ ingest = IngestIdle
    /\ batch = BatchIdle
    /\ servers \in ServerColls
    /\ query = QueryIdle
    /\ sources = SourcesIdle
    /\ health = HealthIdle
    /\ dash = DashIdle
    /\ reads = <<>>
    /\ ops = <<>>

NextDash ==
    \/ \E body \in DashBodies, ok \in BOOLEAN : PostLogs(body, ok)
    \/ \E id \in LogIds, ok \in BOOLEAN : PutResolve(id, NoFields, ok)
    \/ DashboardStart
    \/ \E name \in DashCountNames : DashboardCount(name)
    \/ DashboardRespond
    \/ DashboardFail

SpecDash == InitDash /\ [][NextDash]_vars

\* the same requests from one client that waits for each answer
NextScenario ==
    \/ /\ ~dash.active
       /\ \/ \E body \in DashBodies, ok \in BOOLEAN : PostLogs(body, ok)
          \/ \E id \in LogIds, ok \in BOOLEAN : PutResolve(id, NoFields, ok)
    \/ DashboardStart
    \/ \E name \in DashCountNames : DashboardCount(name)
    \/ DashboardRespond
    \/ DashboardFail

SpecScenario == InitDash /\ [][NextScenario]_vars

InitAuth ==
    /\ nodeEnv \in NodeEnvs
    /\ now = 0
    /\ \E D \in SUBSET AdminIds :
          admins \in [D -> {AdminUserDoc("ops@example.com", ips, 0, 0) : ips \in SUBSET IPs}]
    /\ \E D \in SUBSET StoredSids : sessions \in [D -> SessionDatas]
    /\ reqs = [r \in Reqs |-> ReqIdle]
    /\ arrival = [r \in Reqs |-> ArrivalIdle]
    /\ CodesIdle
    /\ SideIdle
    /\ LogsIdle
    /\ ReadIdle

NextAuth ==
    \/ \E r \in Reqs, c \in Sids \cup {NoVal}, ip \in IPs : SessionMiddleware(r, c, ip)
    \/ \E r \in Reqs : UpdateActivity(r)
    \/ \E r \in Reqs, ok \in BOOLEAN : UpdateActivityDone(r, ok)
    \/ \E r \in Reqs, dbOk \in BOOLEAN : RequireAuth(r, dbOk)
    \/ \E r \in Reqs, ok \in BOOLEAN : SessionDestroy(r, ok)
    \/ \E r \in Reqs : Handler(r)
    \/ \E r \in Reqs : Finish(r)
    \/ \E id \in AdminIds : RemoveAdmin(id)
    \/ Tick

Spec == InitAuth /\ [][NextAuth]_vars

\* the logs getLogTrends is asked about: events of two levels at the start of
\* a day and an hour later, on three calendar days, oldest first
TrendLevels == {"error", "info"}

TrendTimes == {0, Hour, Day, Day + Hour, 2 * Day}

TrendDocs ==
    {SystemLogDoc([level |-> l, message |-> "m", source |-> "system"], t)
        : l \in TrendLevels, t \in TrendTimes}

TrendStores ==
    UNION {{st \in [1..n -> TrendDocs] :
              \A i, j \in 1..n : i < j => st[i].timestamp <= st[j].timestamp}
           : n \in 0..(MaxLogs + 1)}

InitTrend ==
    /\ nodeEnv = "production"
    /\ now = 2 * Day
    /\ admins = [a \in {} |-> NoVal]
    /\ sessions = [s \in {} |-> EmptySession]
    /\ reqs = [r \in Reqs |-> ReqIdle]
    /\ arrival = [r \in Reqs |-> ArrivalIdle]
    /\ CodesIdle
    /\ SideIdle
    /\ logs \in TrendStores
    /\ logResp = 0
    /\ ingest = IngestIdle
    /\ batch = BatchIdle
    /\ ReadIdle

NextTrend ==
    /\ trend = TrendIdle
    /\ \E startDate \in {0, Hour, Day}, endDate \in {0, Day, Day + Hour} :
          GetLogTrends(startDate, endDate)

SpecTrend == InitTrend /\ [][NextTrend]_vars

\* the servers the analytics are asked about, by createdAt and plan, oldest
\* first: created now and an hour ago, and around the ends of the 7-day periods
AnalyticsNow == 60 * Day + Hour

CreationTimes ==
    {AnalyticsNow, AnalyticsNow - Hour,
     AnalyticsNow - 7 * Day, AnalyticsNow - 7 * Day - Hour,
     AnalyticsNow - 14 * Day, AnalyticsNow - 14 * Day - Hour,
     AnalyticsNow - 30 * Day}

Plans == {"free", "premium"}

ModlServerColls ==
    UNION {{c \in [1..n -> [createdAt : CreationTimes, plan : Plans]] :
              \A i, j \in 1..n : i < j => c[i].createdAt <= c[j].createdAt}
           : n \in 0..MaxServers}

RangeQueries ==
    {NoFields, [range |-> "7d"], [range |-> "30d"], [range |-> "90d"], [range |-> "1y"]}

InitAnalytics ==
    /\ nodeEnv = "production"
    /\ now = AnalyticsNow
    /\ admins = [a \in {} |-> NoVal]
    /\ sessions = [s \in {} |-> EmptySession]
    /\ reqs = [r \in Reqs |-> ReqIdle]
    /\ arrival = [r \in Reqs |-> ArrivalIdle]
    /\ CodesIdle
    /\ LogsIdle
    /\ ReadIdle
    /\ trend = TrendIdle
    /\ modlServers \in ModlServerColls
    /\ analytics = AnalyticsIdle
    /\ healthCheck = HealthCheckIdle
    /\ ListsIdle

NextAnalytics ==
    /\ analytics = AnalyticsIdle
    /\ \E q \in RangeQueries, ok \in BOOLEAN : GetAnalytics(q, ok)

SpecAnalytics == InitAnalytics /\ [][NextAnalytics]_vars

\* the logs GET /health is asked about: unresolved critical events of the last
\* hour (the first exactly an hour old), after at most one event that does not
\* count: older, resolved, or of another level
HealthNow == Day

RecentCritical(n) ==
    [i \in 1..n |->
        SystemLogDoc([level |-> "critical", message |-> "m", source |-> "system"],
                     IF i = 1 THEN HealthNow - Hour ELSE HealthNow)]

OtherEvents ==
    {<<>>,
     <<SystemLogDoc([level |-> "critical", message |-> "m", source |-> "system"],
                    HealthNow - 2 * Hour)>>,
     <<ResolveUpdate(SystemLogDoc([level |-> "critical", message |-> "m",
                                   source |-> "system"], HealthNow - Hour),
                     "admin", HealthNow)>>,
     <<SystemLogDoc([level |-> "error", message |-> "m", source |-> "system"],
                    HealthNow - Hour)>>}

HealthStores == {other \o RecentCritical(n) : other \in OtherEvents, n \in 0..MaxCritical}

InitHealthCheck ==
    /\ nodeEnv = "production"
    /\ now = HealthNow
    /\ admins = [a \in {} |-> NoVal]
    /\ sessions = [s \in {} |-> EmptySession]
    /\ reqs = [r \in Reqs |-> ReqIdle]
    /\ arrival = [r \in Reqs |-> ArrivalIdle]
    /\ CodesIdle
    /\ SideIdle
    /\ logs \in HealthStores
    /\ logResp = 0
    /\ ingest = IngestIdle
    /\ batch = BatchIdle
    /\ ReadIdle

NextHealthCheck ==
    /\ healthCheck = HealthCheckIdle
    /\ \E dbOk, countOk \in BOOLEAN : GetHealth(dbOk, countOk)

SpecHealthCheck == InitHealthCheck /\ [][NextHealthCheck]_vars

\* the bound on the appends of a behaviour
MaxAppends == 3

AuditActions == {"update_system_prompt", "reset_system_prompt"}

SecurityTypes == {"login_failure"}

\* a list after logAuditEvent or logSecurityEvent has appended k entries to it
\* at time 0: the k entries before the list, cut to the cap
Appended(list, action, cap, k) ==
    Splice([i \in 1..k |-> [timestamp |-> 0, action |-> action]] \o list, cap)

\* the lists as the module loads them, one entry short of their caps, and full
AuditLists ==
    {Appended(MockAuditLogs, "update_system_prompt", AuditCap, k)
        : k \in {0, AuditCap - MockAuditCount - 1, AuditCap - MockAuditCount}}

SecurityLists ==
    {Appended(MockSecurityEvents, "login_failure", SecurityCap, k)
        : k \in {0, SecurityCap - MockSecurityCount - 1, SecurityCap - MockSecurityCount}}

InitAudit ==
    /\ nodeEnv = "production"
    /\ now = 0
    /\ admins = [a \in {} |-> NoVal]
    /\ sessions = [s \in {} |-> EmptySession]
    /\ reqs = [r \in Reqs |-> ReqIdle]
    /\ arrival = [r \in Reqs |-> ArrivalIdle]
    /\ CodesIdle
    /\ LogsIdle
    /\ ReadIdle
    /\ trend = TrendIdle
    /\ modlServers = <<>>
    /\ analytics = AnalyticsIdle
    /\ healthCheck = HealthCheckIdle
    /\ auditLogs \in AuditLists
    /\ securityEvents \in SecurityLists
    /\ appends = AppendsIdle

NextAudit ==
    \/ /\ appends.count < MaxAppends
       /\ \/ \E action \in AuditActions : LogAuditEvent(action)
          \/ \E type \in SecurityTypes : LogSecurityEvent(type)
          \/ PostTest
    \/ Tick

SpecAudit == InitAudit /\ [][NextAudit]_vars

\* ingest, resolve and query requests in any order
FrameQueries == {[resolved |-> "false"]}

NextFrame ==
    \/ \E body \in PlainBodies, ok \in BOOLEAN : PostLogs(body, ok)
    \/ \E id \in LogIds, body \in ResolveBodies, ok \in BOOLEAN : PutResolve(id, body, ok)
    \/ \E q \in FrameQueries, ok \in BOOLEAN : GetLogs(q, ok)
    \/ Tick

SpecFrame == InitLog /\ [][NextFrame]_vars

-----------------------------------------------------------------------------
(* The Auth Guard's outcome for a request *)

Authenticated(s) == s.adminId # NoVal /\ s.isAuthenticated

Started(r) == reqs[r].stage # "idle"

Answered(r) == reqs[r].stage = "done"

ReachedHandler(r) == reqs[r].stage = "handler" \/ reqs[r].handlerRan

GuardDenied(r) == Answered(r) /\ reqs[r].status = 401

DenialCause(r) ==
    IF ~Authenticated(arrival[r].session) THEN "AuthenticationRequired"
    ELSE IF reqs[r].found = "missing" THEN "InvalidSession"
    ELSE "AddressNotAuthorized"

SessionLive(sid) == sid \in DOMAIN sessions /\ sessions[sid].isAuthenticated

-----------------------------------------------------------------------------
(* C1: IP pinning end to end. Outside development mode, a request that      *)
(* arrives with an authenticated session of an existing identity from an   *)
(* address that is not in the identity's loggedInIps on arrival never      *)
(* reaches the protected handler, and is answered with a failure.          *)
C1_IpPinningEndToEnd ==
    nodeEnv # "development" =>
      \A r \in Reqs :
        (/\ Started(r)
         /\ Authenticated(arrival[r].session)
         /\ arrival[r].known
         /\ ClientIP(reqs[r].ip) \notin arrival[r].ips)
        => /\ ~ReachedHandler(r)
           /\ Answered(r) => reqs[r].status >= 400

(* C2 as stated: whatever the mode, a request whose session has no admin   *)
(* identifier or is not marked authenticated is answered 401               *)
(* 'Authentication required' and never reaches the protected handler.      *)
C2_UnauthenticatedDenied_AnyMode ==
    \A r \in Reqs :
      (Started(r) /\ ~Authenticated(arrival[r].session))
      => /\ ~ReachedHandler(r)
         /\ Answered(r) => /\ reqs[r].status = 401
                           /\ reqs[r].error = "Authentication required"

(* C2 amended: the same, when NODE_ENV is not 'development'.               *)
C2_UnauthenticatedDenied ==
    nodeEnv # "development" => C2_UnauthenticatedDenied_AnyMode

C2_Witness ==
    \E r \in Reqs :
      /\ nodeEnv = "production"
      /\ arrival[r].session.adminId # NoVal
      /\ ~arrival[r].session.isAuthenticated
      /\ arrival[r].known
      /\ ClientIP(reqs[r].ip) \in arrival[r].ips
      /\ Answered(r)
      /\ reqs[r].status = 401

(* C3 as stated: a request with an authenticated session whose identity is *)
(* gone is answered 401 'Invalid session' without reaching the handler,    *)
(* and by the time it is answered the session is no longer an              *)
(* authenticated session of the store.                                     *)
C3_InvalidSession_AsStated ==
    \A r \in Reqs :
      (Started(r) /\ Authenticated(arrival[r].session) /\ ~arrival[r].known)
      => /\ ~ReachedHandler(r)
         /\ Answered(r) => /\ reqs[r].status = 401
                           /\ reqs[r].error = "Invalid session"
                           /\ ~SessionLive(reqs[r].cookie)

C3_Answer ==
    nodeEnv # "development" =>
      \A r \in Reqs :
        (Started(r) /\ Authenticated(arrival[r].session) /\ ~arrival[r].known)
        => /\ ~ReachedHandler(r)
           /\ (Answered(r) /\ reqs[r].status # 500)
                => /\ reqs[r].status = 401
                   /\ reqs[r].error = "Invalid session"
                   /\ ~reqs[r].hasSession
                   /\ reqs[r].destroy # "no"
                   /\ reqs[r].destroy = "done" => ~SessionLive(reqs[r].cookie)

C3_DestroyStep ==
    nodeEnv # "development" =>
      /\ \A r \in Reqs :
           (reqs[r].destroy = "pending" /\ reqs'[r].destroy = "done")
           => reqs[r].cookie \notin DOMAIN sessions'
      /\ DOMAIN sessions' \subseteq DOMAIN sessions
      /\ \A s \in DOMAIN sessions' : sessions'[s] = sessions[s]

(* C3 amended: outside development mode and when the identity lookup       *)
(* answers, the guard calls destroy on the session and answers 401         *)
(* 'Invalid session' without running the handler; the destroy completes    *)
(* after the answer, and once it completes without error the session is    *)
(* gone from the store and never comes back.                               *)
C3_InvalidSession == []C3_Answer /\ [][C3_DestroyStep]_vars

C3_Witness ==
    \E r \in Reqs :
      /\ nodeEnv = "production"
      /\ Answered(r)
      /\ reqs[r].error = "Invalid session"
      /\ reqs[r].destroy = "done"
      /\ reqs[r].cookie \notin DOMAIN sessions

(* C4: an identity with zero addresses never passes. Outside development   *)
(* mode, a request whose session references an identity that has no        *)
(* loggedInIps when the request arrives never reaches the handler.         *)
C4_ZeroAddressesNeverPass ==
    nodeEnv # "development" =>
      \A r \in Reqs :
        (Started(r) /\ arrival[r].known /\ arrival[r].ips = {})
        => ~ReachedHandler(r)

(* C5 as stated: any two requests the guard denies with 401 get the same   *)
(* response, whatever the cause.                                           *)
C5_DenialsUniform ==
    \A r1, r2 \in Reqs :
      (GuardDenied(r1) /\ GuardDenied(r2))
      => /\ reqs[r1].status = reqs[r2].status
         /\ reqs[r1].error = reqs[r2].error

(* C5 amended: the three denials share the status 401, and the error text  *)
(* is the cause's own: two denials carry the same text exactly when they   *)
(* have the same cause.                                                    *)
C5_DenialsByCause ==
    /\ \A r \in Reqs :
         (Answered(r) /\ reqs[r].status # 500 /\ ~reqs[r].handlerRan)
         => reqs[r].status = 401
    /\ \A r1, r2 \in Reqs :
         (GuardDenied(r1) /\ GuardDenied(r2))
         => (reqs[r1].error = reqs[r2].error <=> DenialCause(r1) = DenialCause(r2))

C5_Witness ==
    \E r1, r2 \in Reqs :
      /\ GuardDenied(r1) /\ GuardDenied(r2)
      /\ DenialCause(r1) = "InvalidSession"
      /\ DenialCause(r2) = "AddressNotAuthorized"

-----------------------------------------------------------------------------
(* C6: a verification code is redeemed at most once. No row of email_codes *)
(* is redeemed successfully twice, and a redemption succeeds only on a row *)
(* that was unused and not past expiresAt when the call was made, and      *)
(* leaves that row used.                                                   *)
C6_Counted == \A i \in DOMAIN redeemed : redeemed[i] <= 1

C6_Step ==
    (\/ \E j \in DOMAIN redeemed : redeemed'[j] # redeemed[j]
     \/ lastRedeem' # lastRedeem /\ lastRedeem'.result = "ok")
    => LET i == lastRedeem'.row
       IN /\ lastRedeem'.result = "ok"
          /\ i \in DOMAIN codes
          /\ ~codes[i].used
          /\ now <= codes[i].expiresAt
          /\ codes'[i].used
          /\ redeemed'[i] = redeemed[i] + 1

C7_UnresolvedAtCreation ==
    [][Len(logs') > Len(logs)
       => LET d == logs'[Len(logs')]
          IN ~d.resolved /\ d.resolvedBy = NoVal /\ d.resolvedAt = NoDate]_vars

(* C8: in every reachable state every stored LogEvent that is resolved     *)
(* has a resolvedAt that is set and not before its timestamp, and every    *)
(* one that is not resolved has neither resolvedAt nor resolvedBy.         *)
C8_ResolutionInvariant ==
    \A i \in DOMAIN logs :
      /\ logs[i].resolved
           => logs[i].resolvedAt # NoDate /\ logs[i].resolvedAt >= logs[i].timestamp
      /\ ~logs[i].resolved
           => logs[i].resolvedAt = NoDate /\ logs[i].resolvedBy = NoVal

(* C9: resolve is idempotent. No step changes an event that is already     *)
(* resolved: its resolved, resolvedBy and resolvedAt stay as they were.    *)
C9_ResolveIdempotent ==
    [][\A i \in DOMAIN logs : logs[i].resolved => logs'[i] = logs[i]]_vars

(* C10 as stated: when a resolve over a set of ids has been served by the  *)
(* store, every id of the set that was known is resolved and no failure    *)
(* was reported for any id, the unknown ones included.                     *)
BatchServed ==
    /\ batch.active
    /\ batch.pending = {}
    /\ \A i \in batch.ids : batch.replies[i] # 500

C10_UnknownIdsSkippedSilently ==
    BatchServed =>
      \A i \in batch.ids :
        /\ i \in batch.known => logs[i].resolved
        /\ batch.replies[i] < 400

C10_Replies ==
    batch.active =>
      \A i \in DOMAIN batch.replies :
        /\ batch.replies[i] \in {200, 404, 500}
        /\ batch.replies[i] = 200 => i \in DOMAIN logs /\ logs[i].resolved
        /\ i \in batch.known => batch.replies[i] # 404
        /\ i \notin DOMAIN logs => batch.replies[i] # 200

C10_Step ==
    \A i \in LogIds :
      (batch.active /\ i \in batch.pending /\ i \notin DOMAIN logs
         /\ batch'.active /\ i \notin batch'.pending)
      => /\ logs' = logs
         /\ batch'.replies[i] \in {404, 500}

(* C10 amended: each id of the set is a request of its own. A known id     *)
(* whose request the store serves is resolved and answered 200 whatever    *)
(* happens to the other ids; an unknown id changes nothing in the store    *)
(* and its request is answered 404, a failure the caller is told of.       *)
C10_UnknownIdsAnswered404 == []C10_Replies /\ [][C10_Step]_vars

C10_Witness ==
    /\ BatchServed
    /\ \E i, j \in batch.ids :
         /\ batch.replies[i] = 404
         /\ batch.replies[j] = 200
         /\ logs[j].resolved

(* C11: POST /logs stores the server's clock as the timestamp of the event, *)
(* whatever timestamp the caller supplies, so the timestamps of the stored  *)
(* events never decrease in the order of ingestion.                         *)
C11_Ordered ==
    \A i, j \in DOMAIN logs : i < j => logs[i].timestamp <= logs[j].timestamp

C11_Step ==
    Len(logs') = Len(logs) + 1
    => /\ logs'[Len(logs')].timestamp = now
       /\ \A i \in DOMAIN logs : logs'[i].timestamp = logs[i].timestamp

(* C11: every stored timestamp is the clock of its ingestion, in order.      *)
C11_ServerTimestamp == []C11_Ordered /\ [][C11_Step]_vars

C11_Witness ==
    /\ Len(logs) = 2
    /\ ingest.status = 201
    /\ "timestamp" \in DOMAIN ingest.body
    /\ logs[2].timestamp # ingest.body["timestamp"]
    /\ logs[1].timestamp < logs[2].timestamp

(* C12: a POST /logs whose level, message or source is missing or empty is  *)
(* answered 400 and leaves the stored events as they were.                  *)
C12_Invalid(body) ==
    \E f \in {"level", "message", "source"} : f \notin DOMAIN body \/ body[f] = ""

C12_Answer == (ingest.status # 0 /\ C12_Invalid(ingest.body)) => ingest.status = 400

C12_Step ==
    /\ Len(logs') # Len(logs) => ~C12_Invalid(ingest'.body)
    /\ (ingest' # ingest /\ C12_Invalid(ingest'.body)) => logs' = logs

(* C12: an invalid body is answered 400 and stores nothing.                 *)
C12_ValidationError == []C12_Answer /\ [][C12_Step]_vars

C12_Witness ==
    /\ Len(logs) > 0
    /\ ingest.status = 400
    /\ "level" \in DOMAIN ingest.body
    /\ ingest.body["level"] = ""
    /\ {"message", "source"} \subseteq DOMAIN ingest.body

(* C13: the page of GET /logs is bounded for every requested limit: the     *)
(* number of events returned is never more than 100 and never more than    *)
(* the limit reported in the pagination of the answer.                      *)
C13_PageSizeBounded ==
    query.status = 200
    => /\ Len(query.logs) <= 100
       /\ Len(query.logs) <= query.limit

(* C14: the pages reported by GET /logs is ceil(total / limit), a finite    *)
(* non-negative integer, for every total and limit, and 0 when total is 0.  *)
C14_PageCount ==
    query.status = 200
    => /\ query.pages.kind = "finite"
       /\ query.pages.value >= 0
       /\ query.total = 0 => query.pages.value = 0
       /\ query.limit > 0 => /\ query.pages.value * query.limit >= query.total
                             /\ (query.pages.value - 1) * query.limit < query.total

(* C15: the filters of GET /logs are conjunctive and each optional: the     *)
(* total is the number of stored events that satisfy every supplied filter  *)
(* (level, source, serverId, category, resolved, timestamp between start    *)
(* and end inclusive), every returned event satisfies them, dropping one    *)
(* filter never shrinks the result, and no filter combination is an error.  *)
C15_Supplied(q, f) == f \in DOMAIN q /\ q[f] # ""

C15_Satisfies(doc, q) ==
    /\ \A f \in {"level", "source", "serverId", "category"} :
          C15_Supplied(q, f) => doc[f] = q[f]
    /\ C15_Supplied(q, "resolved") => (doc.resolved <=> q["resolved"] = "true")
    /\ "startDate" \in DOMAIN q => doc.timestamp >= q["startDate"]
    /\ "endDate" \in DOMAIN q => doc.timestamp <= q["endDate"]

C15_Without(q, f) == [g \in DOMAIN q \ {f} |-> q[g]]

C16_SortedSet(o, S) ==
    /\ {o[k] : k \in DOMAIN o} = S
    /\ \A a, b \in DOMAIN o : a < b => Rank(o[a]) < Rank(o[b])

C16_SourcesAndCategories ==
    sources.status = 200
    => /\ sources.kind = "object"
       /\ C16_SortedSet(sources.sources,
                        {logs[i].source : i \in DOMAIN logs} \ {NoVal, ""})
       /\ C16_SortedSet(sources.categories,
                        {logs[i].category : i \in DOMAIN logs} \ {NoVal, ""})

(* C17: for non-negative counts with failedServers <= totalServers the      *)
(* health score is clamp(round(100 - 30 * failed / total [if total > 0]     *)
(* - min(5 * critical24h, 25) - min(error24h, 20) - 10 * unresolvedCritical *)
(* - 3 * unresolvedErrors), 0, 100), an integer of 0..100, and the status   *)
(* is excellent from 95, good from 85, fair from 70, else poor.             *)
C17_Penalties(m) ==
    (IF m.criticalLogs24h * 5 < 25 THEN m.criticalLogs24h * 5 ELSE 25)
    + (IF m.errorLogs24h < 20 THEN m.errorLogs24h ELSE 20)
    + 10 * m.unresolvedCritical + 3 * m.unresolvedErrors

\* the integer nearest to 100 - penalties - 30 * failed / total, halves up
C17_Rounded(m) ==
    IF m.totalServers = 0 THEN 100 - C17_Penalties(m)
    ELSE LET t == m.totalServers
             twice == 2 * ((100 - C17_Penalties(m)) * t - 30 * m.failedServers)
         IN CHOOSE r \in -200..100 : 2 * t * r - t <= twice /\ twice < 2 * t * r + t

C17_Clamp(x) == IF x < 0 THEN 0 ELSE IF x > 100 THEN 100 ELSE x

(* C17: score and status of a call are those of the specified algorithm.    *)
C17_HealthAlgorithm ==
    (health.called /\ health.metrics.failedServers <= health.metrics.totalServers)
    => /\ health.score = C17_Clamp(C17_Rounded(health.metrics))
       /\ health.score \in 0..100
       /\ health.status = "excellent" <=> health.score >= 95
       /\ health.status = "good" <=> (health.score >= 85 /\ health.score < 95)
       /\ health.status = "fair" <=> (health.score >= 70 /\ health.score < 85)
       /\ health.status = "poor" <=> health.score < 70

C17_Witness ==
    /\ health.called
    /\ health.metrics.totalServers = 4
    /\ health.metrics.failedServers = 1
    /\ health.metrics.criticalLogs24h = 6
    /\ health.metrics.errorLogs24h = 21
    /\ health.metrics.unresolvedCritical = 1
    /\ health.metrics.unresolvedErrors = 0
    /\ health.score = 38
    /\ health.status = "poor"

(* C18: raising unresolvedCritical or failedServers by one, every other     *)
(* count the same, never raises the health score.                           *)
C18_Monotone == health.raised # "none" => health.score <= health.before

C18_Witness ==
    /\ health.raised = "failedServers"
    /\ health.metrics.failedServers = health.metrics.totalServers
    /\ health.score = 0
    /\ health.before = 0
    /\ health.metrics.unresolvedCritical = MaxUnresolved

(* The answers of GET /dashboard around one write: the answer before the    *)
(* write and the answer after it, read at the same time of the clock        *)
C19_Before == reads[1]
C19_After == reads[2]

C19_Ingested ==
    /\ Len(reads) = 2
    /\ C19_After.lastUpdated = C19_Before.lastUpdated
    /\ C19_After.after # <<>>
    /\ C19_After.after[1].op = "post"
    /\ C19_After.after[1].level = "critical"

C19_ResolvedIt ==
    /\ Len(reads) = 2
    /\ C19_After.lastUpdated = C19_Before.lastUpdated
    /\ C19_After.after # <<>>
    /\ C19_After.after[1].op = "resolve"
    /\ C19_Before.after # <<>>
    /\ C19_Before.after[1].op = "post"
    /\ C19_Before.after[1].level = "critical"
    /\ C19_Before.after[1].id = C19_After.after[1].id

C20_OneState ==
    (dash.active /\ dash.pending = {})
    => /\ dash.cands # {}
       /\ dash.counts["criticalLogs24h"] + dash.counts["errorLogs24h"]
            + dash.counts["warningLogs24h"] <= dash.counts["totalLogs24h"]

-----------------------------------------------------------------------------
(* The log trend *)

\* the calendar day of a timestamp
CalendarDay(t) == t \div Day

\* the stored events inside the window the trend was asked for
InWindow == {i \in DOMAIN logs : /\ logs[i].timestamp >= trend.startDate
                                 /\ logs[i].timestamp <= trend.endDate}

\* the count a bucket reports for a level: 0 when the level is not listed
Reported(bucket, level) ==
    IF \E e \in bucket.levels : e.level = level
    THEN (CHOOSE e \in bucket.levels : e.level = level).count
    ELSE 0

\* C21: the log trend has exactly one bucket for each calendar day that has an
\* event with a timestamp in [startDate, endDate] and none for any other day,
\* in ascending date order; the count a bucket reports for a level is the
\* number of in-window events of that level on that day, and its total is the
\* sum of its per-level counts
C21_Trend ==
    trend.asked =>
       LET B == trend.buckets
       IN /\ {B[k]._id : k \in DOMAIN B} = {CalendarDay(logs[i].timestamp) : i \in InWindow}
          /\ \A j, k \in DOMAIN B : j < k => B[j]._id < B[k]._id
          /\ \A k \in DOMAIN B :
                /\ \A e, f \in B[k].levels : e.level = f.level => e = f
                /\ \A l \in TrendLevels \cup {e.level : e \in B[k].levels} :
                      Reported(B[k], l) =
                         Cardinality({i \in InWindow :
                                         /\ CalendarDay(logs[i].timestamp) = B[k]._id
                                         /\ logs[i].level = l})
                /\ B[k].total = SumCounts(B[k].levels)

\* a trend of two days, one of them with two events, asked of a store that
\* also holds an event after the window
C21_Witness ==
    /\ trend.asked
    /\ Len(trend.buckets) >= 1
    /\ \E k \in DOMAIN trend.buckets : trend.buckets[k].total >= 2
    /\ \E i \in DOMAIN logs : logs[i].timestamp > trend.endDate

-----------------------------------------------------------------------------
(* The analytics *)

\* C22: the registration trend is in ascending date order, its cumulative field
\* is the running sum of its counts (the first cumulative is the first count,
\* each later one the previous cumulative plus the count of its day), and a
\* window without registrations yields the empty series without an error
C22_RegistrationTrend ==
    LET T == analytics.registrationTrend
    IN /\ analytics.status = 200 =>
            /\ \A j, k \in DOMAIN T : j < k => T[j].date < T[k].date
            /\ \A k \in DOMAIN T :
                  T[k].cumulative = IF k = 1 THEN T[k].servers
                                    ELSE T[k - 1].cumulative + T[k].servers
       /\ ( /\ analytics.status # 0
            /\ analytics.db
            /\ \A i \in DOMAIN modlServers :
                  modlServers[i].createdAt < now - analytics.days * Day )
          => analytics.status = 200 /\ T = <<>>

\* a trend of two days or more whose last cumulative exceeds the last count
C22_Witness ==
    /\ analytics.status = 200
    /\ Len(analytics.registrationTrend) >= 2
    /\ \E k \in DOMAIN analytics.registrationTrend :
          analytics.registrationTrend[k].servers >= 2

\* an answered request whose window holds no registration
C22_EmptyWitness ==
    /\ analytics.status = 200
    /\ modlServers # <<>>
    /\ analytics.registrationTrend = <<>>

\* the servers created in [from, to)
CreatedIn(from, to) ==
    {i \in DOMAIN modlServers : /\ modlServers[i].createdAt >= from
                                /\ modlServers[i].createdAt < to}

\* C23: the growth rate compares the servers created in the last N days with
\* those created in the N days before (disjoint windows); it is
\* ((current - previous) / previous) * 100 when previous > 0, 100 when previous
\* is 0 and current is not, 0 when both are 0, and nothing is divided by zero
C23_GrowthRate ==
    analytics.status = 200 =>
       LET N == analytics.days * Day
           current == Cardinality(CreatedIn(now - N, now + 1))
           previous == Cardinality(CreatedIn(now - 2 * N, now - N))
           g == analytics.growth
       IN /\ analytics.current = current
          /\ analytics.previous = previous
          /\ g.den # 0
          /\ previous > 0 => g.num * previous = (current - previous) * 100 * g.den
          /\ previous = 0 /\ current > 0 => g.num = 100 * g.den
          /\ previous = 0 /\ current = 0 => g.num = 0
          /\ Abs(analytics.serverGrowthRate * g.den - g.num * 100) * 2 <= Abs(g.den)

\* a growth that is a proper fraction: shrinking from a positive period
C23_Witness ==
    /\ analytics.status = 200
    /\ analytics.previous > analytics.current
    /\ analytics.current > 0
    /\ analytics.serverGrowthRate < 0

\* C30: the percentage of a plan is round(100 * count of the plan / total
\* over all plans), so that a single plan reports 100
C30_PlanPercentage ==
    analytics.status = 200 =>
       \A p \in analytics.byPlan :
          /\ p.value = Cardinality({i \in DOMAIN modlServers : modlServers[i].plan = p.name})
          /\ p.percentage = (2 * 100 * p.value + Len(modlServers)) \div (2 * Len(modlServers))

-----------------------------------------------------------------------------
(* The health endpoint *)

\* C25: whichever of its checks fail, GET /health answers successfully with
\* one entry per check, a failed store check reported critical and a failed
\* error-rate check reported unknown; the overall status is healthy exactly
\* when every check is healthy, critical exactly when some check is critical,
\* and degraded otherwise
C25_HealthDegrades ==
    healthCheck # HealthCheckIdle =>
       LET C == healthCheck.checks
           allHealthy == \A k \in DOMAIN C : C[k].status = "healthy"
           someCritical == \E k \in DOMAIN C : C[k].status = "critical"
       IN /\ healthCheck.status = 200
          /\ Len(C) = 2
          /\ C[1].name = "Database"
          /\ C[2].name = "Error Rate"
          /\ ~healthCheck.dbOk => C[1].status = "critical"
          /\ ~healthCheck.countOk => C[2].status = "unknown"
          /\ healthCheck.overall = "healthy" <=> allHealthy
          /\ healthCheck.overall = "critical" <=> someCritical
          /\ healthCheck.overall = "degraded" <=> ~allHealthy /\ ~someCritical

\* the error-rate check alone has failed: the answer is degraded
C25_Witness ==
    /\ healthCheck.status = 200
    /\ healthCheck.dbOk
    /\ ~healthCheck.countOk
    /\ healthCheck.overall = "degraded"

\* the store check has failed and the error-rate check found nothing
C25_CriticalWitness ==
    /\ healthCheck.status = 200
    /\ ~healthCheck.dbOk
    /\ healthCheck.countOk
    /\ healthCheck.checks[2].status = "healthy"
    /\ healthCheck.overall = "critical"

-----------------------------------------------------------------------------
(* The audit log and the security events *)

\* no entry is older than the one after it
NewestFirst(list) ==
    \A k \in 1..(Len(list) - 1) : list[k].timestamp >= list[k + 1].timestamp

\* C29: after any sequence of appends (logAuditEvent, logSecurityEvent,
\* POST /test) the audit log holds at most 1000 entries and the security
\* events at most 500, both are newest first, and the entry appended last
\* is at the head of its list
C29_BoundedNewestFirst ==
    /\ Len(auditLogs) <= 1000
    /\ Len(securityEvents) <= 500
    /\ NewestFirst(auditLogs)
    /\ NewestFirst(securityEvents)
    /\ appends.list = "audit" => auditLogs[1] = appends.entry
    /\ appends.list = "security" => securityEvents[1] = appends.entry

\* the same of the appends made by logAuditEvent and logSecurityEvent alone
C29_BoundedByLogEvent ==
    (\A k \in DOMAIN auditLogs : auditLogs[k].action # "security_test")
       => C29_BoundedNewestFirst

-----------------------------------------------------------------------------
(* The Activity Updater and the Auth Guard, step by step *)

\* C24: when the Activity Updater's update of the store fails, the error is
\* swallowed: the updater never answers the request, with an error or
\* otherwise, and the request goes on to the guard of its route and, from
\* there, to its handler
C24_UpdaterStep ==
    \A r \in Reqs :
       reqs[r].stage = "updating" /\ reqs'[r] # reqs[r]
       => /\ reqs'[r] = [reqs[r] EXCEPT !.stage = "guard"]
          /\ reqs'[r].status = 0
          /\ reqs'[r].error = ""

C24_UpdaterSilent ==
    \A r \in Reqs :
       reqs[r].stage \in {"activity", "updating", "guard"}
       => reqs[r].status = 0 /\ reqs[r].error = ""

\* C24: no request is answered before its guard has run, and every step out
\* of the updater's await, failed or not, hands the request to the guard
C24_UpdaterNeverFails == []C24_UpdaterSilent /\ [][C24_UpdaterStep]_vars

\* a request has gone on to the guard after its update failed: its identity
\* exists and its address, which the update adds, is not among the
\* identity's addresses
C24_Witness ==
    \E r \in Reqs :
       /\ nodeEnv = "production"
       /\ reqs[r].stage = "guard"
       /\ reqs[r].session.adminId \in DOMAIN admins
       /\ ClientIP(reqs[r].ip) \notin admins[reqs[r].session.adminId].loggedInIps

\* C26: the updates of the Activity Updater commute: an update that is applied
\* adds its address to the identity's loggedInIps and removes none, and never
\* moves lastActivityAt backwards, so that every order of two updates ends
\* with the union of the addresses and the later time
C26_UpdateStep ==
    \A id \in DOMAIN admins \cap DOMAIN admins' :
       /\ admins[id].loggedInIps \subseteq admins'[id].loggedInIps
       /\ admins'[id].lastActivityAt >= admins[id].lastActivityAt

\* C26: no step removes an address of an identity or moves its
\* lastActivityAt backwards
C26_OrderIndependent == [][C26_UpdateStep]_vars

\* the addresses alone: the set only grows, by the address of the update
C26_AddressesStep ==
    \A id \in DOMAIN admins \cap DOMAIN admins' :
       /\ admins[id].loggedInIps \subseteq admins'[id].loggedInIps
       /\ admins'[id].loggedInIps # admins[id].loggedInIps
          => \E r \in Reqs :
                /\ reqs[r].stage = "updating"
                /\ reqs[r].session.adminId = id
                /\ admins'[id].loggedInIps =
                      admins[id].loggedInIps \cup {ClientIP(reqs[r].ip)}

C26_AddressesUnion == [][C26_AddressesStep]_vars

\* the guard's decision on a request, taken on the state it reads
C27_GuardStep ==
    \A r \in Reqs :
       LET q == reqs[r]
           id == q.session.adminId
       IN /\ (q.stage = "guard" /\ reqs'[r].stage = "handler")
             => /\ Authenticated(q.session)
                /\ id \in DOMAIN admins
                /\ ClientIP(q.ip) \in admins[id].loggedInIps
                /\ reqs'[r].adminUser = id
                /\ reqs'[r].status = 0
          /\ (q.stage = "guard" /\ reqs'[r].stage = "done")
             => /\ reqs'[r].status \in {401, 500}
                /\ reqs'[r].adminUser = NoVal
                /\ ~reqs'[r].handlerRan
                /\ ~Authenticated(q.session)
                      => reqs'[r].error = "Authentication required"
                /\ (Authenticated(q.session) /\ reqs'[r].status = 401)
                      => IF id \notin DOMAIN admins
                         THEN reqs'[r].error = "Invalid session"
                         ELSE /\ reqs'[r].error = "IP address not authorized"
                              /\ ClientIP(q.ip) \notin admins[id].loggedInIps
          /\ q.stage = "guard" => reqs'[r].stage \in {"guard", "handler", "done"}
          /\ reqs'[r].stage = "handler" => q.stage \in {"guard", "handler"}

\* a request is granted or denied, never both
C27_OneOutcome ==
    \A r \in Reqs :
       /\ ReachedHandler(r) => reqs[r].adminUser # NoVal /\ reqs[r].status \in {0, 200}
       /\ (Answered(r) /\ ~reqs[r].handlerRan)
             => reqs[r].status \in {401, 500} /\ reqs[r].adminUser = NoVal
       /\ reqs[r].handlerRan => Answered(r) /\ reqs[r].status = 200

(* C27 as stated: whatever the mode, the guard ends in exactly one of       *)
(* Granted or Denied; the handler runs only if, in this order, the session *)
(* was authenticated, the identity was found in the store and the source   *)
(* address was in its loggedInIps when the guard checked, and the identity *)
(* found is attached to the request; no request is both answered by the    *)
(* guard and passed on to the handler.                                     *)
C27_GuardMachine_AnyMode == []C27_OneOutcome /\ [][C27_GuardStep]_vars

(* C27 amended: the same, when NODE_ENV is not 'development'.              *)
C27_GuardMachine ==
    [](nodeEnv # "development" => C27_OneOutcome)
    /\ [][nodeEnv # "development" => C27_GuardStep]_vars

\* one request granted and answered by its handler, another denied for its
\* address
C27_Witness ==
    \E r1, r2 \in Reqs :
       /\ nodeEnv = "production"
       /\ reqs[r1].handlerRan
       /\ reqs[r1].found = "found"
       /\ reqs[r1].adminUser \in DOMAIN admins
       /\ GuardDenied(r2)
       /\ reqs[r2].error = "IP address not authorized"

-----------------------------------------------------------------------------
(* The frame of the resolve *)

\* an event with the resolution fields of another
WithResolutionOf(doc, other) ==
    [doc EXCEPT !.resolved = other.resolved, !.resolvedBy = other.resolvedBy,
                !.resolvedAt = other.resolvedAt]

C28_FrameStep ==
    /\ Len(logs') >= Len(logs)
    /\ \A i \in DOMAIN logs :
          /\ logs'[i].level = logs[i].level
          /\ logs'[i].message = logs[i].message
          /\ logs'[i].source = logs[i].source
          /\ logs'[i].timestamp = logs[i].timestamp
          /\ logs'[i] # logs[i]
                => /\ WithResolutionOf(logs'[i], logs[i]) = logs[i]
                   /\ logs'[i].resolved
                   /\ \A j \in DOMAIN logs \ {i} : logs'[j] = logs[j]
                   /\ Len(logs') = Len(logs)

\* C28: a resolve changes only resolved, resolvedBy and resolvedAt of the event
\* it targets: in every step of ingest, resolve and query requests each stored
\* event remains, with its level, message, source and timestamp, and a step
\* that changes an event changes nothing but the resolution fields of that
\* one event
C28_ResolveFrame == [][C28_FrameStep]_vars

\* two events are stored, the older one resolved after the newer one was
\* ingested, and a query has been answered since
C28_Witness ==
    /\ Len(logs) = 2
    /\ logs[1].resolved
    /\ logs[1].resolvedAt > logs[2].timestamp
    /\ ~logs[2].resolved
    /\ query.status = 200
    /\ Len(query.logs) = 1

====
